---------------------------- MODULE Spec2Model ----------------------------
(***************************************************************************)
(* Timestamp-format classifier of transform-normalize-timestamps:          *)
(* the lazily built catalog TIMESTAMP_FORMATS (name -> regex text) and     *)
(* identify_timestamp_format, which compiles every catalog pattern with    *)
(* Regex::new and collects the names whose regex is_match the input.       *)
(*                                                                         *)
(* Text is a sequence of characters.  An ASCII character is the one-letter *)
(* string holding it; a character outside ASCII is the string "UXXXX" of  *)
(* its code point.  Pattern texts are the catalog's raw string literals,   *)
(* character by character.                                                 *)
(***************************************************************************)
EXTENDS Integers, Sequences, FiniteSets, TLC

(***************************************************************************)
(* Characters and code points                                              *)
(***************************************************************************)

\* The printable ASCII characters in code order, 0x20 .. 0x7E (the grave
\* accent, 0x60, is written U0060).
Printable ==
  << " ", "!", "\"", "#", "$", "%", "&", "'", "(", ")", "*", "+", ",", "-", ".", "/",
     "0", "1", "2", "3", "4", "5", "6", "7", "8", "9", ":", ";", "<", "=", ">", "?",
     "@", "A", "B", "C", "D", "E", "F", "G", "H", "I", "J", "K", "L", "M", "N", "O",
     "P", "Q", "R", "S", "T", "U", "V", "W", "X", "Y", "Z", "[", "\\", "]", "^", "_",
     "U0060", "a", "b", "c", "d", "e", "f", "g", "h", "i", "j", "k", "l", "m", "n", "o",
     "p", "q", "r", "s", "t", "u", "v", "w", "x", "y", "z", "{", "|", "}", "~" >>

\* Characters outside printable ASCII that the catalog or the inputs use:
\* the era names and the year/month/day signs of the calendar patterns, two
\* CJK numerals, two decimal digits of other scripts (general category Nd),
\* a Latin-1 letter and two control characters.
Wide ==
  [ U000A |-> 10,    U0007 |-> 7,     U00E9 |-> 233,
    U0663 |-> 1635,  UFF15 |-> 65301,
    U5E74 |-> 24180, U6708 |-> 26376, U65E5 |-> 26085,
    U4EE4 |-> 20196, U548C |-> 21644, U5E73 |-> 24179, U6210 |-> 25104,
    U662D |-> 26157, U5927 |-> 22823, U6B63 |-> 27491, U660E |-> 26126,
    U6CBB |-> 27835, U4E8C |-> 20108, U5341 |-> 21313 ]

WideChar(c) == c \in DOMAIN Wide

\* The code point of a character.
CodeTable ==
  [c \in {Printable[i] : i \in 1..Len(Printable)} |->
      31 + (CHOOSE i \in 1..Len(Printable) : Printable[i] = c)]

Code(c) == IF WideChar(c) THEN Wide[c] ELSE CodeTable[c]


\* Unicode general category Nd, the class \d of a Unicode-aware regex: the
\* ASCII digits and the decimal digits of the other scripts (those of the
\* scripts the model's characters come from are listed).
IsNd(code) ==
  \/ code \in 48..57
  \/ code \in 1632..1641
  \/ code \in 1776..1785
  \/ code \in 2406..2415
  \/ code \in 65296..65305

\* The code points of a text: the chars() of a &str.
chars(text) == [i \in 1..Len(text) |-> Code(text[i])]

(***************************************************************************)
(* Regex::new: the pattern text parsed into a syntax tree, or an error.    *)
(* The syntax covered is the one the catalog uses (literals, escapes \d    *)
(* \uXXXX \xXX and escaped punctuation, classes with ranges and negation,  *)
(* groups, alternation, the repetitions ? * + {m} {m,} {m,n}, the anchors  *)
(* ^ $ and the dot) together with the errors of the regex crate on         *)
(* unbalanced groups, look-around, backreferences, unknown escapes,        *)
(* dangling repetitions and reversed ranges.                               *)
(***************************************************************************)

Fail == [ok |-> FALSE]

Bol == [t |-> "bol"]
Eol == [t |-> "eol"]
Chr(code) == [t |-> "chr", c |-> code]
\* A character class: the code ranges, whether \d is a member, and negation.
Class(neg, ranges, nd) == [t |-> "set", neg |-> neg, ranges |-> ranges, nd |-> nd]
Cat(xs) == IF Len(xs) = 1 THEN xs[1] ELSE [t |-> "cat", xs |-> xs]
Alt(xs) == IF Len(xs) = 1 THEN xs[1] ELSE [t |-> "alt", xs |-> xs]
\* max = -1: no upper limit.
Rep(x, min, max) == [t |-> "rep", x |-> x, min |-> min, max |-> max]

\* The character at a position of the pattern; "" past its end.
At(p, i) == IF i >= 1 /\ i <= Len(p) THEN p[i] ELSE ""

HexDigits ==
  << "0", "1", "2", "3", "4", "5", "6", "7", "8", "9", "A", "B", "C", "D", "E", "F" >>
LowerHex == << "a", "b", "c", "d", "e", "f" >>

HexVal(c) ==
  IF \E k \in 1..16 : HexDigits[k] = c
    THEN (CHOOSE k \in 1..16 : HexDigits[k] = c) - 1
    ELSE IF \E k \in 1..6 : LowerHex[k] = c
      THEN (CHOOSE k \in 1..6 : LowerHex[k] = c) + 9
      ELSE -1

DecVal(c) == IF HexVal(c) \in 0..9 THEN HexVal(c) ELSE -1

RECURSIVE HexNumber(_, _, _, _)
\* The value of n hexadecimal digits from position i, -1 when one is missing.
HexNumber(p, i, n, acc) ==
  IF n = 0 THEN acc
  ELSE IF HexVal(At(p, i)) < 0 THEN -1
  ELSE HexNumber(p, i + 1, n - 1, acc * 16 + HexVal(At(p, i)))

RECURSIVE DecNumber(_, _, _)
\* The decimal number from position i on: its value and the position after it.
DecNumber(p, i, acc) ==
  IF DecVal(At(p, i)) < 0 THEN [val |-> acc, pos |-> i]
  ELSE DecNumber(p, i + 1, acc * 10 + DecVal(At(p, i)))

\* The punctuation an escape makes literal (regex_syntax::is_meta_character).
MetaCharacters ==
  { "\\", ".", "+", "*", "?", "(", ")", "|", "[", "]", "{", "}", "^", "$", "#", "&",
    "-", "~" }

\* An escape, from the character after the backslash: a literal code point,
\* the class \d, or an error (a backreference, an unknown escape, the end).
ParseEscape(p, i) ==
  LET e == At(p, i) IN
  IF e = "d" THEN [ok |-> TRUE, nd |-> TRUE, code |-> 0, pos |-> i + 1]
  ELSE IF e = "u" THEN
    LET v == HexNumber(p, i + 1, 4, 0) IN
    IF v < 0 THEN Fail ELSE [ok |-> TRUE, nd |-> FALSE, code |-> v, pos |-> i + 5]
  ELSE IF e = "x" THEN
    LET v == HexNumber(p, i + 1, 2, 0) IN
    IF v < 0 THEN Fail ELSE [ok |-> TRUE, nd |-> FALSE, code |-> v, pos |-> i + 3]
  ELSE IF e \in MetaCharacters
    THEN [ok |-> TRUE, nd |-> FALSE, code |-> Code(e), pos |-> i + 1]
  ELSE Fail

\* One end of a class range: a character or an escaped literal.
ClassAtom(p, i) ==
  IF At(p, i) = "" THEN Fail
  ELSE IF At(p, i) = "\\" THEN ParseEscape(p, i + 1)
  ELSE [ok |-> TRUE, nd |-> FALSE, code |-> Code(At(p, i)), pos |-> i + 1]

RECURSIVE ClassItems(_, _, _, _, _, _)
\* The members of a bracketed class from position i up to its closing bracket.
ClassItems(p, i, neg, ranges, nd, first) ==
  IF At(p, i) = "" THEN Fail
  ELSE IF At(p, i) = "]" /\ ~first
    THEN [ok |-> TRUE, node |-> Class(neg, ranges, nd), pos |-> i + 1]
  ELSE
    LET lo == ClassAtom(p, i) IN
    IF ~lo.ok THEN Fail
    ELSE IF lo.nd THEN ClassItems(p, lo.pos, neg, ranges, TRUE, FALSE)
    ELSE IF At(p, lo.pos) = "-" /\ At(p, lo.pos + 1) \notin {"]", ""} THEN
      LET hi == ClassAtom(p, lo.pos + 1) IN
      IF ~hi.ok \/ hi.nd THEN Fail
      ELSE IF hi.code < lo.code THEN Fail
      ELSE ClassItems(p, hi.pos, neg, ranges \cup {<<lo.code, hi.code>>}, nd, FALSE)
    ELSE ClassItems(p, lo.pos, neg, ranges \cup {<<lo.code, lo.code>>}, nd, FALSE)

\* A bracketed class, from its opening bracket.
ParseClass(p, i) ==
  IF At(p, i + 1) = "^" THEN ClassItems(p, i + 2, TRUE, {}, FALSE, TRUE)
  ELSE ClassItems(p, i + 1, FALSE, {}, FALSE, TRUE)

\* The least and the greatest member of a set of numbers, and its members in order.
Min(S) == CHOOSE x \in S : \A y \in S : x <= y
Max(S) == CHOOSE x \in S : \A y \in S : y <= x
Sorted(S) == [k \in 1..Cardinality(S) |-> CHOOSE x \in S : Cardinality({y \in S : y < x}) = k - 1]

\* The number of hexadecimal digits an escape letter takes.
HexLen(c) == IF c = "u" THEN 4 ELSE IF c = "x" THEN 2 ELSE 0

\* The tokens of a pattern.  A position starts a token unless it continues an
\* escape, lies in a bracketed class or in the braces of a counted repetition,
\* or belongs to the ?: of a group.  start: the token starts; kind: "atom",
\* "open", "close", "bar" or "quant"; last: the token's last position (0: it
\* never ends); depth: the groups open before the token.
Lex(p) ==
  LET n == Len(p)
      \* the backslashes right before i are odd in number
      Escaped(i) == (i - 1 - Max({j \in 0..(i - 1) : j = 0 \/ p[j] # "\\"})) % 2 = 1
      escapes == {i \in 1..n : p[i] = "\\" /\ ~Escaped(i)}
      EscLast(j) == j + 1 + HexLen(At(p, j + 1))
      plain == {i \in 1..n : ~\E j \in escapes : j < i /\ i <= EscLast(j)}
      brackets == {i \in plain : p[i] = "["}
      FirstItem(j) == IF At(p, j + 1) = "^" THEN j + 2 ELSE j + 1
      Closes(j, k) == p[k] = "]" /\ k \in plain /\ k > FirstItem(j)
      Inside(j, i) == j < i /\ ~\E k \in (j + 1)..(i - 1) : Closes(j, k)
      inclass == {i \in 1..n : \E j \in brackets : Inside(j, i)}
      classes == brackets \ inclass
      ClassLast(j) ==
        LET ks == {k \in (j + 1)..n : Closes(j, k)} IN IF ks = {} THEN 0 ELSE Min(ks)
      braces == {i \in plain \ inclass : p[i] = "{"}
      inbrace == {i \in 1..n : \E j \in braces : j < i /\ \A k \in (j + 1)..(i - 1) : p[k] # "}"}
      BraceLast(j) ==
        LET ks == {k \in (j + 1)..n : p[k] = "}"} IN IF ks = {} THEN 0 ELSE Min(ks)
      parens == {i \in plain \ (inclass \cup inbrace) : p[i] = "("}
      prefix == {i \in 2..n : /\ p[i] = "?"
                              /\ (i - 1) \in parens}
                \cup {i \in 3..n : /\ p[i] = ":"
                                   /\ p[i - 1] = "?"
                                   /\ (i - 2) \in parens}
      start == plain \ (inclass \cup inbrace \cup prefix)
      Kind(i) ==
        IF p[i] = "(" THEN "open"
        ELSE IF p[i] = ")" THEN "close"
        ELSE IF p[i] = "|" THEN "bar"
        ELSE IF p[i] \in {"?", "*", "+", "{"} THEN "quant"
        ELSE "atom"
      Last(i) ==
        IF p[i] = "\\" THEN EscLast(i)
        ELSE IF p[i] = "[" THEN ClassLast(i)
        ELSE IF p[i] = "{" THEN BraceLast(i)
        ELSE IF p[i] = "(" THEN Max({i} \cup {j \in {i + 1, i + 2} : j \in prefix})
        ELSE i
      kind == [i \in start |-> Kind(i)]
  IN [ start |-> start,
       kind |-> kind,
       last |-> [i \in start |-> Last(i)],
       nested |-> brackets \cap inclass,
       depth |-> [i \in start |->
                    Cardinality({j \in start : j < i /\ kind[j] = "open"})
                    - Cardinality({j \in start : j < i /\ kind[j] = "close"})] ]

\* The repetition a quantifier token stands for, or an error.
QuantOf(p, i) ==
  IF p[i] = "?" THEN [ok |-> TRUE, min |-> 0, max |-> 1]
  ELSE IF p[i] = "*" THEN [ok |-> TRUE, min |-> 0, max |-> -1]
  ELSE IF p[i] = "+" THEN [ok |-> TRUE, min |-> 1, max |-> -1]
  ELSE
    LET m == DecNumber(p, i + 1, 0) IN
    IF m.pos = i + 1 THEN Fail
    ELSE IF At(p, m.pos) = "}" THEN [ok |-> TRUE, min |-> m.val, max |-> m.val]
    ELSE IF At(p, m.pos) # "," THEN Fail
    ELSE
      LET x == DecNumber(p, m.pos + 1, 0) IN
      IF At(p, x.pos) # "}" THEN Fail
      ELSE IF x.pos = m.pos + 1 THEN [ok |-> TRUE, min |-> m.val, max |-> -1]
      ELSE IF x.val < m.val THEN Fail
      ELSE [ok |-> TRUE, min |-> m.val, max |-> x.val]

\* The start of the token before a token, 0 when it is the first.
Before(lex, i) == Max({0} \cup {j \in lex.start : j < i})

\* What Regex::new rejects: a bad escape, a class that is not closed or has a
\* reversed range (or a class within it), a malformed counted repetition, a
\* group that is not a plain or a non-capturing one (look-around, flags,
\* names), unbalanced parentheses, a repetition with nothing to repeat.
SyntaxError(p, lex) ==
  \/ lex.nested # {}
  \/ \E i \in lex.start :
       \/ lex.last[i] = 0
       \/ lex.last[i] > Len(p)
       \/ p[i] = "\\" /\ ~ParseEscape(p, i + 1).ok
       \/ p[i] = "[" /\ ~ParseClass(p, i).ok
       \/ lex.kind[i] = "quant" /\ ~QuantOf(p, i).ok
       \/ lex.kind[i] = "open" /\ At(p, i + 1) = "?" /\ At(p, i + 2) # ":"
       \/ lex.kind[i] = "close" /\ lex.depth[i] < 1
       \/ /\ lex.kind[i] = "quant"
          /\ Before(lex, i) = 0 \/ lex.kind[Before(lex, i)] \in {"open", "bar"}
  \/ Cardinality({i \in lex.start : lex.kind[i] = "open"})
       # Cardinality({i \in lex.start : lex.kind[i] = "close"})

\* The expression of an atom token: an escape, a class, an anchor, the dot, a literal.
AtomNode(p, i) ==
  IF p[i] = "\\" THEN
    LET e == ParseEscape(p, i + 1) IN IF e.nd THEN Class(FALSE, {}, TRUE) ELSE Chr(e.code)
  ELSE IF p[i] = "[" THEN ParseClass(p, i).node
  ELSE IF p[i] = "^" THEN Bol
  ELSE IF p[i] = "$" THEN Eol
  ELSE IF p[i] = "." THEN Class(TRUE, {<<10, 10>>}, FALSE)
  ELSE Chr(Code(p[i]))

RECURSIVE Quants(_, _, _, _, _)
\* An expression under the quantifier tokens that follow it, from position j;
\* a ? right after a quantifier makes it lazy, which changes no match.
Quants(p, lex, node, j, quantified) ==
  IF j \notin lex.start THEN node
  ELSE IF lex.kind[j] # "quant" THEN node
  ELSE IF p[j] = "?" /\ quantified THEN Quants(p, lex, node, j + 1, FALSE)
  ELSE LET q == QuantOf(p, j) IN
       Quants(p, lex, Rep(node, q.min, q.max), lex.last[j] + 1, TRUE)

RECURSIVE Tree(_, _, _, _, _)
\* The syntax tree of the positions a..b, which lie in d groups: the
\* alternatives between the bars at that depth, each the concatenation of
\* its atoms and groups with their quantifiers.
Tree(p, lex, a, b, d) ==
  LET tops == {i \in lex.start : a <= i /\ i <= b /\ lex.depth[i] = d}
      bars == Sorted({i \in tops : lex.kind[i] = "bar"})
      count == Len(bars) + 1
      Lo(k) == IF k = 1 THEN a ELSE bars[k - 1] + 1
      Hi(k) == IF k = count THEN b ELSE bars[k] - 1
      Close(i) == Min({j \in lex.start : j > i /\ lex.kind[j] = "close" /\ lex.depth[j] = d + 1})
      Item(i) ==
        IF lex.kind[i] = "open"
          THEN Quants(p, lex, Tree(p, lex, lex.last[i] + 1, Close(i) - 1, d + 1), Close(i) + 1, FALSE)
          ELSE Quants(p, lex, AtomNode(p, i), lex.last[i] + 1, FALSE)
      Branch(k) ==
        LET items == Sorted({i \in tops : /\ Lo(k) <= i
                                          /\ i <= Hi(k)
                                          /\ lex.kind[i] \in {"atom", "open"}})
        IN Cat([x \in 1..Len(items) |-> Item(items[x])])
  IN Alt([k \in 1..count |-> Branch(k)])

\* Regex::new(pattern): Ok(the compiled regex) or Err.
RegexNew(pattern) ==
  LET lex == Lex(pattern) IN
  IF SyntaxError(pattern, lex) THEN Fail
  ELSE [ok |-> TRUE, re |-> Tree(pattern, lex, 1, Len(pattern), 0)]

(***************************************************************************)
(* Regex::is_match: whether the regex matches somewhere in the text.  ^    *)
(* holds only at the start of the text and $ only at its end (no           *)
(* multi-line mode, no special case for a final newline).                  *)
(***************************************************************************)

InClass(code, n) ==
  ((\E r \in n.ranges : r[1] <= code /\ code <= r[2]) \/ (n.nd /\ IsNd(code))) # n.neg

\* Whether a one-character expression (a literal or a class) accepts a code point.
Hit(x, code) == IF x.t = "chr" THEN code = x.c ELSE InClass(code, x)

\* Repetition of a one-character expression: the ends of the runs of
\* accepted characters that start in P and have min..max characters.
RunEnds(x, min, max, s, P) ==
  {j \in 0..Len(s) : \E i \in P : /\ i + min <= j
                                  /\ max < 0 \/ j <= i + max
                                  /\ \A k \in (i + 1)..j : Hit(x, s[k])}

RECURSIVE Ends(_, _, _)
RECURSIVE CatEnds(_, _, _, _)
RECURSIVE RepEnds(_, _, _, _, _)
RECURSIVE StarEnds(_, _, _, _)

\* The positions of s (code points; position i is after the i-th) where a
\* match of n that starts at one of the positions P can end.
Ends(n, s, P) ==
  IF P = {} THEN {}
  ELSE IF n.t = "chr" THEN {i + 1 : i \in {j \in P : j < Len(s) /\ s[j + 1] = n.c}}
  ELSE IF n.t = "set" THEN {i + 1 : i \in {j \in P : j < Len(s) /\ InClass(s[j + 1], n)}}
  ELSE IF n.t = "bol" THEN P \cap {0}
  ELSE IF n.t = "eol" THEN P \cap {Len(s)}
  ELSE IF n.t = "cat" THEN CatEnds(n.xs, 1, s, P)
  ELSE IF n.t = "alt" THEN UNION {Ends(n.xs[k], s, P) : k \in 1..Len(n.xs)}
  ELSE IF n.x.t \in {"chr", "set"} THEN RunEnds(n.x, n.min, n.max, s, P)
  ELSE RepEnds(n.x, n.min, n.max, s, P)

CatEnds(xs, k, s, P) ==
  IF k > Len(xs) \/ P = {} THEN P ELSE CatEnds(xs, k + 1, s, Ends(xs[k], s, P))

RepEnds(x, min, max, s, P) ==
  IF P = {} THEN {}
  ELSE IF min > 0 THEN RepEnds(x, min - 1, IF max < 0 THEN max ELSE max - 1, s, Ends(x, s, P))
  ELSE IF max = 0 THEN P
  ELSE IF max < 0 THEN StarEnds(x, s, P, P)
  ELSE P \cup RepEnds(x, 0, max - 1, s, Ends(x, s, P))

\* Zero or more repetitions: the positions reached, to a fixed point.
StarEnds(x, s, seen, frontier) ==
  LET next == Ends(x, s, frontier) \ seen IN
  IF next = {} THEN seen ELSE StarEnds(x, s, seen \cup next, next)

\* regex.is_match(text), on the text's code points.
is_match(regex, s) == Ends(regex, s, 0..Len(s)) # {}


(***************************************************************************)
(* The catalog: the pattern texts of the lazy_static! block, in the order  *)
(* of its map.insert statements.                                           *)
(***************************************************************************)

\* The ISO_DATE pattern without its closing anchor.
ISO_DATE_Open ==
    << "^", "\\", "d", "{", "4", "}", "-", "(", "0", "[", "1", "-", "9", "]", "|", "1", "[", "0",
       "-", "2", "]", ")", "-", "(", "0", "[", "1", "-", "9", "]", "|", "[", "1", "2", "]", "\\",
       "d", "|", "3", "[", "0", "1", "]", ")" >>

\* line 11: ^\d{4}-(0[1-9]|1[0-2])-(0[1-9]|[12]\d|3[01])$
ISO_DATE ==
    << "^", "\\", "d", "{", "4", "}", "-", "(", "0", "[", "1", "-", "9", "]", "|", "1", "[", "0",
       "-", "2", "]", ")", "-", "(", "0", "[", "1", "-", "9", "]", "|", "[", "1", "2", "]", "\\",
       "d", "|", "3", "[", "0", "1", "]", ")", "$" >>

\* line 12: ^\d{4}-(0[1-9]|1[0-2])-(0[1-9]|[12]\d|3[01])T([01]\d|2[0-3]):[0-5]\d:[0-5]\d$
ISO_DATETIME ==
    << "^", "\\", "d", "{", "4", "}", "-", "(", "0", "[", "1", "-", "9", "]", "|", "1", "[", "0",
       "-", "2", "]", ")", "-", "(", "0", "[", "1", "-", "9", "]", "|", "[", "1", "2", "]", "\\",
       "d", "|", "3", "[", "0", "1", "]", ")", "T", "(", "[", "0", "1", "]", "\\", "d", "|", "2",
       "[", "0", "-", "3", "]", ")", ":", "[", "0", "-", "5", "]", "\\", "d", ":", "[", "0", "-",
       "5", "]", "\\", "d", "$" >>

\* line 13: ^\d{4}-(0[1-9]|1[0-2])-(0[1-9]|[12]\d|3[01])T([01]\d|2[0-3]):[0-5]\d:[0-5]\d(?:Z|UTC)$
ISO_DATETIME_UTC ==
    << "^", "\\", "d", "{", "4", "}", "-", "(", "0", "[", "1", "-", "9", "]", "|", "1", "[", "0",
       "-", "2", "]", ")", "-", "(", "0", "[", "1", "-", "9", "]", "|", "[", "1", "2", "]", "\\",
       "d", "|", "3", "[", "0", "1", "]", ")", "T", "(", "[", "0", "1", "]", "\\", "d", "|", "2",
       "[", "0", "-", "3", "]", ")", ":", "[", "0", "-", "5", "]", "\\", "d", ":", "[", "0", "-",
       "5", "]", "\\", "d", "(", "?", ":", "Z", "|", "U", "T", "C", ")", "$" >>

\* line 14: ^\d{4}-(0[1-9]|1[0-2])-(0[1-9]|[12]\d|3[01])T([01]\d|2[0-3]):[0-5]\d:[0-5]\d[+-](?:[01]\d|2[0-3]):[0-5]\d$
ISO_DATETIME_TZ ==
    << "^", "\\", "d", "{", "4", "}", "-", "(", "0", "[", "1", "-", "9", "]", "|", "1", "[", "0",
       "-", "2", "]", ")", "-", "(", "0", "[", "1", "-", "9", "]", "|", "[", "1", "2", "]", "\\",
       "d", "|", "3", "[", "0", "1", "]", ")", "T", "(", "[", "0", "1", "]", "\\", "d", "|", "2",
       "[", "0", "-", "3", "]", ")", ":", "[", "0", "-", "5", "]", "\\", "d", ":", "[", "0", "-",
       "5", "]", "\\", "d", "[", "+", "-", "]", "(", "?", ":", "[", "0", "1", "]", "\\", "d",
       "|", "2", "[", "0", "-", "3", "]", ")", ":", "[", "0", "-", "5", "]", "\\", "d", "$" >>

\* line 15: ^\d{4}-(0[1-9]|1[0-2])-(0[1-9]|[12]\d|3[01])T([01]\d|2[0-3]):[0-5]\d:[0-5]\d\.\d{1,9}$
ISO_DATETIME_MS ==
    << "^", "\\", "d", "{", "4", "}", "-", "(", "0", "[", "1", "-", "9", "]", "|", "1", "[", "0",
       "-", "2", "]", ")", "-", "(", "0", "[", "1", "-", "9", "]", "|", "[", "1", "2", "]", "\\",
       "d", "|", "3", "[", "0", "1", "]", ")", "T", "(", "[", "0", "1", "]", "\\", "d", "|", "2",
       "[", "0", "-", "3", "]", ")", ":", "[", "0", "-", "5", "]", "\\", "d", ":", "[", "0", "-",
       "5", "]", "\\", "d", "\\", ".", "\\", "d", "{", "1", ",", "9", "}", "$" >>

\* line 16: ^\d{4}-(0[1-9]|1[0-2])-(0[1-9]|[12]\d|3[01])T([01]\d|2[0-3]):[0-5]\d:[0-5]\d\.\d{1,9}(?:Z|UTC)$
ISO_DATETIME_MS_UTC ==
    << "^", "\\", "d", "{", "4", "}", "-", "(", "0", "[", "1", "-", "9", "]", "|", "1", "[", "0",
       "-", "2", "]", ")", "-", "(", "0", "[", "1", "-", "9", "]", "|", "[", "1", "2", "]", "\\",
       "d", "|", "3", "[", "0", "1", "]", ")", "T", "(", "[", "0", "1", "]", "\\", "d", "|", "2",
       "[", "0", "-", "3", "]", ")", ":", "[", "0", "-", "5", "]", "\\", "d", ":", "[", "0", "-",
       "5", "]", "\\", "d", "\\", ".", "\\", "d", "{", "1", ",", "9", "}", "(", "?", ":", "Z",
       "|", "U", "T", "C", ")", "$" >>

\* line 17: ^\d{4}(0[1-9]|1[0-2])(0[1-9]|[12]\d|3[01])$
ISO_DATE_BASIC ==
    << "^", "\\", "d", "{", "4", "}", "(", "0", "[", "1", "-", "9", "]", "|", "1", "[", "0", "-",
       "2", "]", ")", "(", "0", "[", "1", "-", "9", "]", "|", "[", "1", "2", "]", "\\", "d", "|",
       "3", "[", "0", "1", "]", ")", "$" >>

\* line 18: ^\d{4}(0[1-9]|1[0-2])(0[1-9]|[12]\d|3[01])T([01]\d|2[0-3])[0-5]\d[0-5]\d$
ISO_DATETIME_BASIC ==
    << "^", "\\", "d", "{", "4", "}", "(", "0", "[", "1", "-", "9", "]", "|", "1", "[", "0", "-",
       "2", "]", ")", "(", "0", "[", "1", "-", "9", "]", "|", "[", "1", "2", "]", "\\", "d", "|",
       "3", "[", "0", "1", "]", ")", "T", "(", "[", "0", "1", "]", "\\", "d", "|", "2", "[", "0",
       "-", "3", "]", ")", "[", "0", "-", "5", "]", "\\", "d", "[", "0", "-", "5", "]", "\\",
       "d", "$" >>

\* line 19: ^\d{4}-(00[1-9]|0[1-9]\d|[1-2]\d\d|3[0-5]\d|36[0-6])$
ISO_ORDINAL_DATE ==
    << "^", "\\", "d", "{", "4", "}", "-", "(", "0", "0", "[", "1", "-", "9", "]", "|", "0", "[",
       "1", "-", "9", "]", "\\", "d", "|", "[", "1", "-", "2", "]", "\\", "d", "\\", "d", "|",
       "3", "[", "0", "-", "5", "]", "\\", "d", "|", "3", "6", "[", "0", "-", "6", "]", ")", "$" >>

\* line 20: ^\d{4}-W(0[1-9]|[1-4]\d|5[0-3])-[1-7]$
ISO_WEEK_DATE ==
    << "^", "\\", "d", "{", "4", "}", "-", "W", "(", "0", "[", "1", "-", "9", "]", "|", "[", "1",
       "-", "4", "]", "\\", "d", "|", "5", "[", "0", "-", "3", "]", ")", "-", "[", "1", "-", "7",
       "]", "$" >>

\* A seconds pattern that takes only a first digit 1.
UNIX_SECONDS_From2001 ==
    << "^", "1", "\\", "d", "{", "9", "}", "$" >>

\* line 23: ^[1-9]\d{9}$
UNIX_SECONDS ==
    << "^", "[", "1", "-", "9", "]", "\\", "d", "{", "9", "}", "$" >>

\* line 24: ^[1-9]\d{12}$
UNIX_MILLISECONDS ==
    << "^", "[", "1", "-", "9", "]", "\\", "d", "{", "1", "2", "}", "$" >>

\* line 25: ^[1-9]\d{15}$
UNIX_MICROSECONDS ==
    << "^", "[", "1", "-", "9", "]", "\\", "d", "{", "1", "5", "}", "$" >>

\* line 26: ^[1-9]\d{18}$
UNIX_NANOSECONDS ==
    << "^", "[", "1", "-", "9", "]", "\\", "d", "{", "1", "8", "}", "$" >>

\* line 29: ^(Mon|Tue|Wed|Thu|Fri|Sat|Sun), (0[1-9]|[12]\d|3[01]) (Jan|Feb|Mar|Apr|May|Jun|Jul|Aug|Sep|Oct|Nov|Dec) \d{4} ([01]\d|2[0-3]):[0-5]\d:[0-5]\d GMT$
RFC_822_1123 ==
    << "^", "(", "M", "o", "n", "|", "T", "u", "e", "|", "W", "e", "d", "|", "T", "h", "u", "|",
       "F", "r", "i", "|", "S", "a", "t", "|", "S", "u", "n", ")", ",", " ", "(", "0", "[", "1",
       "-", "9", "]", "|", "[", "1", "2", "]", "\\", "d", "|", "3", "[", "0", "1", "]", ")", " ",
       "(", "J", "a", "n", "|", "F", "e", "b", "|", "M", "a", "r", "|", "A", "p", "r", "|", "M",
       "a", "y", "|", "J", "u", "n", "|", "J", "u", "l", "|", "A", "u", "g", "|", "S", "e", "p",
       "|", "O", "c", "t", "|", "N", "o", "v", "|", "D", "e", "c", ")", " ", "\\", "d", "{", "4",
       "}", " ", "(", "[", "0", "1", "]", "\\", "d", "|", "2", "[", "0", "-", "3", "]", ")", ":",
       "[", "0", "-", "5", "]", "\\", "d", ":", "[", "0", "-", "5", "]", "\\", "d", " ", "G",
       "M", "T", "$" >>

\* line 30: ^(Monday|Tuesday|Wednesday|Thursday|Friday|Saturday|Sunday), (0[1-9]|[12]\d|3[01])-(Jan|Feb|Mar|Apr|May|Jun|Jul|Aug|Sep|Oct|Nov|Dec)-\d{2} ([01]\d|2[0-3]):[0-5]\d:[0-5]\d GMT$
RFC_850_1036 ==
    << "^", "(", "M", "o", "n", "d", "a", "y", "|", "T", "u", "e", "s", "d", "a", "y", "|", "W",
       "e", "d", "n", "e", "s", "d", "a", "y", "|", "T", "h", "u", "r", "s", "d", "a", "y", "|",
       "F", "r", "i", "d", "a", "y", "|", "S", "a", "t", "u", "r", "d", "a", "y", "|", "S", "u",
       "n", "d", "a", "y", ")", ",", " ", "(", "0", "[", "1", "-", "9", "]", "|", "[", "1", "2",
       "]", "\\", "d", "|", "3", "[", "0", "1", "]", ")", "-", "(", "J", "a", "n", "|", "F", "e",
       "b", "|", "M", "a", "r", "|", "A", "p", "r", "|", "M", "a", "y", "|", "J", "u", "n", "|",
       "J", "u", "l", "|", "A", "u", "g", "|", "S", "e", "p", "|", "O", "c", "t", "|", "N", "o",
       "v", "|", "D", "e", "c", ")", "-", "\\", "d", "{", "2", "}", " ", "(", "[", "0", "1", "]",
       "\\", "d", "|", "2", "[", "0", "-", "3", "]", ")", ":", "[", "0", "-", "5", "]", "\\",
       "d", ":", "[", "0", "-", "5", "]", "\\", "d", " ", "G", "M", "T", "$" >>

\* line 31: ^(Mon|Tue|Wed|Thu|Fri|Sat|Sun) (Jan|Feb|Mar|Apr|May|Jun|Jul|Aug|Sep|Oct|Nov|Dec) ([ 1-9]|[12]\d|3[01]) ([01]\d|2[0-3]):[0-5]\d:[0-5]\d \d{4}$
ANSI_C_ASCTIME ==
    << "^", "(", "M", "o", "n", "|", "T", "u", "e", "|", "W", "e", "d", "|", "T", "h", "u", "|",
       "F", "r", "i", "|", "S", "a", "t", "|", "S", "u", "n", ")", " ", "(", "J", "a", "n", "|",
       "F", "e", "b", "|", "M", "a", "r", "|", "A", "p", "r", "|", "M", "a", "y", "|", "J", "u",
       "n", "|", "J", "u", "l", "|", "A", "u", "g", "|", "S", "e", "p", "|", "O", "c", "t", "|",
       "N", "o", "v", "|", "D", "e", "c", ")", " ", "(", "[", " ", "1", "-", "9", "]", "|", "[",
       "1", "2", "]", "\\", "d", "|", "3", "[", "0", "1", "]", ")", " ", "(", "[", "0", "1", "]",
       "\\", "d", "|", "2", "[", "0", "-", "3", "]", ")", ":", "[", "0", "-", "5", "]", "\\",
       "d", ":", "[", "0", "-", "5", "]", "\\", "d", " ", "\\", "d", "{", "4", "}", "$" >>

\* line 32: ^\d{4}-(0[1-9]|1[0-2])-(0[1-9]|[12]\d|3[01])T([01]\d|2[0-3]):[0-5]\d:[0-5]\d(?:[+-](?:[01]\d|2[0-3]):[0-5]\d|Z)$
RFC_3339 ==
    << "^", "\\", "d", "{", "4", "}", "-", "(", "0", "[", "1", "-", "9", "]", "|", "1", "[", "0",
       "-", "2", "]", ")", "-", "(", "0", "[", "1", "-", "9", "]", "|", "[", "1", "2", "]", "\\",
       "d", "|", "3", "[", "0", "1", "]", ")", "T", "(", "[", "0", "1", "]", "\\", "d", "|", "2",
       "[", "0", "-", "3", "]", ")", ":", "[", "0", "-", "5", "]", "\\", "d", ":", "[", "0", "-",
       "5", "]", "\\", "d", "(", "?", ":", "[", "+", "-", "]", "(", "?", ":", "[", "0", "1", "]",
       "\\", "d", "|", "2", "[", "0", "-", "3", "]", ")", ":", "[", "0", "-", "5", "]", "\\",
       "d", "|", "Z", ")", "$" >>

\* A month-first pattern whose month and day are any one or two digits.
US_DATETIME_Loose ==
    << "^", "\\", "d", "{", "1", ",", "2", "}", "/", "\\", "d", "{", "1", ",", "2", "}", "/",
       "\\", "d", "{", "4", "}", " ", "(", "[", "0", "1", "]", "\\", "d", "|", "2", "[", "0",
       "-", "3", "]", ")", ":", "[", "0", "-", "5", "]", "\\", "d", ":", "[", "0", "-", "5", "]",
       "\\", "d", "$" >>

\* line 35: ^(0?[1-9]|1[0-2])/(0?[1-9]|[12]\d|3[01])/\d{4} ([01]\d|2[0-3]):[0-5]\d:[0-5]\d$
US_DATETIME ==
    << "^", "(", "0", "?", "[", "1", "-", "9", "]", "|", "1", "[", "0", "-", "2", "]", ")", "/",
       "(", "0", "?", "[", "1", "-", "9", "]", "|", "[", "1", "2", "]", "\\", "d", "|", "3", "[",
       "0", "1", "]", ")", "/", "\\", "d", "{", "4", "}", " ", "(", "[", "0", "1", "]", "\\",
       "d", "|", "2", "[", "0", "-", "3", "]", ")", ":", "[", "0", "-", "5", "]", "\\", "d", ":",
       "[", "0", "-", "5", "]", "\\", "d", "$" >>

\* line 36: ^(0?[1-9]|[12]\d|3[01])/(0?[1-9]|1[0-2])/\d{4} ([01]\d|2[0-3]):[0-5]\d:[0-5]\d$
EU_DATETIME ==
    << "^", "(", "0", "?", "[", "1", "-", "9", "]", "|", "[", "1", "2", "]", "\\", "d", "|", "3",
       "[", "0", "1", "]", ")", "/", "(", "0", "?", "[", "1", "-", "9", "]", "|", "1", "[", "0",
       "-", "2", "]", ")", "/", "\\", "d", "{", "4", "}", " ", "(", "[", "0", "1", "]", "\\",
       "d", "|", "2", "[", "0", "-", "3", "]", ")", ":", "[", "0", "-", "5", "]", "\\", "d", ":",
       "[", "0", "-", "5", "]", "\\", "d", "$" >>

\* line 37: ^\d{4}/(0?[1-9]|1[0-2])/(0?[1-9]|[12]\d|3[01]) ([01]\d|2[0-3]):[0-5]\d:[0-5]\d$
ASIAN_DATETIME ==
    << "^", "\\", "d", "{", "4", "}", "/", "(", "0", "?", "[", "1", "-", "9", "]", "|", "1", "[",
       "0", "-", "2", "]", ")", "/", "(", "0", "?", "[", "1", "-", "9", "]", "|", "[", "1", "2",
       "]", "\\", "d", "|", "3", "[", "0", "1", "]", ")", " ", "(", "[", "0", "1", "]", "\\",
       "d", "|", "2", "[", "0", "-", "3", "]", ")", ":", "[", "0", "-", "5", "]", "\\", "d", ":",
       "[", "0", "-", "5", "]", "\\", "d", "$" >>

\* line 38: ^(0?[1-9]|[12]\d|3[01])\.(0?[1-9]|1[0-2])\.\d{4} ([01]\d|2[0-3]):[0-5]\d:[0-5]\d$
GERMAN_DATETIME ==
    << "^", "(", "0", "?", "[", "1", "-", "9", "]", "|", "[", "1", "2", "]", "\\", "d", "|", "3",
       "[", "0", "1", "]", ")", "\\", ".", "(", "0", "?", "[", "1", "-", "9", "]", "|", "1", "[",
       "0", "-", "2", "]", ")", "\\", ".", "\\", "d", "{", "4", "}", " ", "(", "[", "0", "1",
       "]", "\\", "d", "|", "2", "[", "0", "-", "3", "]", ")", ":", "[", "0", "-", "5", "]",
       "\\", "d", ":", "[", "0", "-", "5", "]", "\\", "d", "$" >>

\* line 39: ^(0?[1-9]|[12]\d|3[01])-(Jan|Feb|Mar|Apr|May|Jun|Jul|Aug|Sep|Oct|Nov|Dec)-\d{4} ([01]\d|2[0-3]):[0-5]\d:[0-5]\d$
UK_DATETIME ==
    << "^", "(", "0", "?", "[", "1", "-", "9", "]", "|", "[", "1", "2", "]", "\\", "d", "|", "3",
       "[", "0", "1", "]", ")", "-", "(", "J", "a", "n", "|", "F", "e", "b", "|", "M", "a", "r",
       "|", "A", "p", "r", "|", "M", "a", "y", "|", "J", "u", "n", "|", "J", "u", "l", "|", "A",
       "u", "g", "|", "S", "e", "p", "|", "O", "c", "t", "|", "N", "o", "v", "|", "D", "e", "c",
       ")", "-", "\\", "d", "{", "4", "}", " ", "(", "[", "0", "1", "]", "\\", "d", "|", "2",
       "[", "0", "-", "3", "]", ")", ":", "[", "0", "-", "5", "]", "\\", "d", ":", "[", "0", "-",
       "5", "]", "\\", "d", "$" >>

\* line 40: ^(0?[1-9]|[12]\d|3[01])-(0?[1-9]|1[0-2])-\d{2} ([01]\d|2[0-3]):[0-5]\d:[0-5]\d$
SHORT_EU_DATETIME ==
    << "^", "(", "0", "?", "[", "1", "-", "9", "]", "|", "[", "1", "2", "]", "\\", "d", "|", "3",
       "[", "0", "1", "]", ")", "-", "(", "0", "?", "[", "1", "-", "9", "]", "|", "1", "[", "0",
       "-", "2", "]", ")", "-", "\\", "d", "{", "2", "}", " ", "(", "[", "0", "1", "]", "\\",
       "d", "|", "2", "[", "0", "-", "3", "]", ")", ":", "[", "0", "-", "5", "]", "\\", "d", ":",
       "[", "0", "-", "5", "]", "\\", "d", "$" >>

\* line 41: ^(0?[1-9]|1[0-2])-(0?[1-9]|[12]\d|3[01])-\d{2} ([01]\d|2[0-3]):[0-5]\d:[0-5]\d$
SHORT_US_DATETIME ==
    << "^", "(", "0", "?", "[", "1", "-", "9", "]", "|", "1", "[", "0", "-", "2", "]", ")", "-",
       "(", "0", "?", "[", "1", "-", "9", "]", "|", "[", "1", "2", "]", "\\", "d", "|", "3", "[",
       "0", "1", "]", ")", "-", "\\", "d", "{", "2", "}", " ", "(", "[", "0", "1", "]", "\\",
       "d", "|", "2", "[", "0", "-", "3", "]", ")", ":", "[", "0", "-", "5", "]", "\\", "d", ":",
       "[", "0", "-", "5", "]", "\\", "d", "$" >>

\* line 42: ^([01]\d|2[0-3]):[0-5]\d:[0-5]\d (0?[1-9]|[12]\d|3[01])/(0?[1-9]|1[0-2])/\d{4}$
TIME_LEADING_FORMAT ==
    << "^", "(", "[", "0", "1", "]", "\\", "d", "|", "2", "[", "0", "-", "3", "]", ")", ":", "[",
       "0", "-", "5", "]", "\\", "d", ":", "[", "0", "-", "5", "]", "\\", "d", " ", "(", "0",
       "?", "[", "1", "-", "9", "]", "|", "[", "1", "2", "]", "\\", "d", "|", "3", "[", "0", "1",
       "]", ")", "/", "(", "0", "?", "[", "1", "-", "9", "]", "|", "1", "[", "0", "-", "2", "]",
       ")", "/", "\\", "d", "{", "4", "}", "$" >>

\* line 45: ^([01]\d|2[0-3]):[0-5]\d:[0-5]\d$
TIME_24H ==
    << "^", "(", "[", "0", "1", "]", "\\", "d", "|", "2", "[", "0", "-", "3", "]", ")", ":", "[",
       "0", "-", "5", "]", "\\", "d", ":", "[", "0", "-", "5", "]", "\\", "d", "$" >>

\* line 46: ^([01]\d|2[0-3]):[0-5]\d:[0-5]\d\.\d{1,3}$
TIME_24H_MS ==
    << "^", "(", "[", "0", "1", "]", "\\", "d", "|", "2", "[", "0", "-", "3", "]", ")", ":", "[",
       "0", "-", "5", "]", "\\", "d", ":", "[", "0", "-", "5", "]", "\\", "d", "\\", ".", "\\",
       "d", "{", "1", ",", "3", "}", "$" >>

\* line 47: ^(0?[1-9]|1[0-2]):[0-5]\d:[0-5]\d [AP]M$
TIME_12H ==
    << "^", "(", "0", "?", "[", "1", "-", "9", "]", "|", "1", "[", "0", "-", "2", "]", ")", ":",
       "[", "0", "-", "5", "]", "\\", "d", ":", "[", "0", "-", "5", "]", "\\", "d", " ", "[",
       "A", "P", "]", "M", "$" >>

\* line 48: ^(0?[1-9]|1[0-2]):[0-5]\d [AP]M$
TIME_12H_SHORT ==
    << "^", "(", "0", "?", "[", "1", "-", "9", "]", "|", "1", "[", "0", "-", "2", "]", ")", ":",
       "[", "0", "-", "5", "]", "\\", "d", " ", "[", "A", "P", "]", "M", "$" >>

\* line 49: ^([01]\d|2[0-3])[0-5]\d[0-5]\d\d{3}$
TIME_CONTINUOUS_MS ==
    << "^", "(", "[", "0", "1", "]", "\\", "d", "|", "2", "[", "0", "-", "3", "]", ")", "[", "0",
       "-", "5", "]", "\\", "d", "[", "0", "-", "5", "]", "\\", "d", "\\", "d", "{", "3", "}",
       "$" >>

\* line 50: ^([01]\d|2[0-3])[0-5]\d[0-5]\d$
TIME_MILITARY ==
    << "^", "(", "[", "0", "1", "]", "\\", "d", "|", "2", "[", "0", "-", "3", "]", ")", "[", "0",
       "-", "5", "]", "\\", "d", "[", "0", "-", "5", "]", "\\", "d", "$" >>

\* line 53: ^\d{4}-(0[1-9]|1[0-2])-(0[1-9]|[12]\d|3[01]) ([01]\d|2[0-3]):[0-5]\d:[0-5]\d$
SQL_TIMESTAMP ==
    << "^", "\\", "d", "{", "4", "}", "-", "(", "0", "[", "1", "-", "9", "]", "|", "1", "[", "0",
       "-", "2", "]", ")", "-", "(", "0", "[", "1", "-", "9", "]", "|", "[", "1", "2", "]", "\\",
       "d", "|", "3", "[", "0", "1", "]", ")", " ", "(", "[", "0", "1", "]", "\\", "d", "|", "2",
       "[", "0", "-", "3", "]", ")", ":", "[", "0", "-", "5", "]", "\\", "d", ":", "[", "0", "-",
       "5", "]", "\\", "d", "$" >>

\* line 54: ^\d{4}-(0[1-9]|1[0-2])-(0[1-9]|[12]\d|3[01]) ([01]\d|2[0-3]):[0-5]\d:[0-5]\d\.\d{1,6}$
SQL_TIMESTAMP_MS ==
    << "^", "\\", "d", "{", "4", "}", "-", "(", "0", "[", "1", "-", "9", "]", "|", "1", "[", "0",
       "-", "2", "]", ")", "-", "(", "0", "[", "1", "-", "9", "]", "|", "[", "1", "2", "]", "\\",
       "d", "|", "3", "[", "0", "1", "]", ")", " ", "(", "[", "0", "1", "]", "\\", "d", "|", "2",
       "[", "0", "-", "3", "]", ")", ":", "[", "0", "-", "5", "]", "\\", "d", ":", "[", "0", "-",
       "5", "]", "\\", "d", "\\", ".", "\\", "d", "{", "1", ",", "6", "}", "$" >>

\* line 55: ^(0?[1-9]|[12]\d|3[01])-(JAN|FEB|MAR|APR|MAY|JUN|JUL|AUG|SEP|OCT|NOV|DEC)-\d{2} (0?[1-9]|1[0-2])\.(0[0-9]|[1-5]\d)\.(0[0-9]|[1-5]\d)\.\d{1,4} [AP]M$
ORACLE_TIMESTAMP ==
    << "^", "(", "0", "?", "[", "1", "-", "9", "]", "|", "[", "1", "2", "]", "\\", "d", "|", "3",
       "[", "0", "1", "]", ")", "-", "(", "J", "A", "N", "|", "F", "E", "B", "|", "M", "A", "R",
       "|", "A", "P", "R", "|", "M", "A", "Y", "|", "J", "U", "N", "|", "J", "U", "L", "|", "A",
       "U", "G", "|", "S", "E", "P", "|", "O", "C", "T", "|", "N", "O", "V", "|", "D", "E", "C",
       ")", "-", "\\", "d", "{", "2", "}", " ", "(", "0", "?", "[", "1", "-", "9", "]", "|", "1",
       "[", "0", "-", "2", "]", ")", "\\", ".", "(", "0", "[", "0", "-", "9", "]", "|", "[", "1",
       "-", "5", "]", "\\", "d", ")", "\\", ".", "(", "0", "[", "0", "-", "9", "]", "|", "[",
       "1", "-", "5", "]", "\\", "d", ")", "\\", ".", "\\", "d", "{", "1", ",", "4", "}", " ",
       "[", "A", "P", "]", "M", "$" >>

\* line 56: ^\d{4}-(0[1-9]|1[0-2])-(0[1-9]|[12]\d|3[01])-([01]\d|2[0-3])\.(0[0-9]|[1-5]\d)\.(0[0-9]|[1-5]\d)\.\d{1,6}$
DB2_TIMESTAMP ==
    << "^", "\\", "d", "{", "4", "}", "-", "(", "0", "[", "1", "-", "9", "]", "|", "1", "[", "0",
       "-", "2", "]", ")", "-", "(", "0", "[", "1", "-", "9", "]", "|", "[", "1", "2", "]", "\\",
       "d", "|", "3", "[", "0", "1", "]", ")", "-", "(", "[", "0", "1", "]", "\\", "d", "|", "2",
       "[", "0", "-", "3", "]", ")", "\\", ".", "(", "0", "[", "0", "-", "9", "]", "|", "[", "1",
       "-", "5", "]", "\\", "d", ")", "\\", ".", "(", "0", "[", "0", "-", "9", "]", "|", "[",
       "1", "-", "5", "]", "\\", "d", ")", "\\", ".", "\\", "d", "{", "1", ",", "6", "}", "$" >>

\* line 57: ^\d{4}(0[1-9]|1[0-2])(0[1-9]|[12]\d|3[01]) ([01]\d|2[0-3]):[0-5]\d:[0-5]\d$
MSSQL_TIMESTAMP ==
    << "^", "\\", "d", "{", "4", "}", "(", "0", "[", "1", "-", "9", "]", "|", "1", "[", "0", "-",
       "2", "]", ")", "(", "0", "[", "1", "-", "9", "]", "|", "[", "1", "2", "]", "\\", "d", "|",
       "3", "[", "0", "1", "]", ")", " ", "(", "[", "0", "1", "]", "\\", "d", "|", "2", "[", "0",
       "-", "3", "]", ")", ":", "[", "0", "-", "5", "]", "\\", "d", ":", "[", "0", "-", "5", "]",
       "\\", "d", "$" >>

\* line 60: ^\d{4}(0[1-9]|1[0-2])(0[1-9]|[12]\d|3[01])([01]\d|2[0-3])[0-5]\d[0-5]\d\d{1,3}$
COMPACT_TIMESTAMP ==
    << "^", "\\", "d", "{", "4", "}", "(", "0", "[", "1", "-", "9", "]", "|", "1", "[", "0", "-",
       "2", "]", ")", "(", "0", "[", "1", "-", "9", "]", "|", "[", "1", "2", "]", "\\", "d", "|",
       "3", "[", "0", "1", "]", ")", "(", "[", "0", "1", "]", "\\", "d", "|", "2", "[", "0", "-",
       "3", "]", ")", "[", "0", "-", "5", "]", "\\", "d", "[", "0", "-", "5", "]", "\\", "d",
       "\\", "d", "{", "1", ",", "3", "}", "$" >>

\* line 61: ^\d{4}-(0[1-9]|1[0-2])-(0[1-9]|[12]\d|3[01]) ([01]\d|2[0-3]):[0-5]\d:[0-5]\d\.\d{1,6}[+-]([01]\d|2[0-3]):[0-5]\d$
POSTGRES_TIMESTAMP_TZ ==
    << "^", "\\", "d", "{", "4", "}", "-", "(", "0", "[", "1", "-", "9", "]", "|", "1", "[", "0",
       "-", "2", "]", ")", "-", "(", "0", "[", "1", "-", "9", "]", "|", "[", "1", "2", "]", "\\",
       "d", "|", "3", "[", "0", "1", "]", ")", " ", "(", "[", "0", "1", "]", "\\", "d", "|", "2",
       "[", "0", "-", "3", "]", ")", ":", "[", "0", "-", "5", "]", "\\", "d", ":", "[", "0", "-",
       "5", "]", "\\", "d", "\\", ".", "\\", "d", "{", "1", ",", "6", "}", "[", "+", "-", "]",
       "(", "[", "0", "1", "]", "\\", "d", "|", "2", "[", "0", "-", "3", "]", ")", ":", "[", "0",
       "-", "5", "]", "\\", "d", "$" >>

\* line 62: ^@[1-9]\d{9}$
TAGGED_UNIX ==
    << "^", "@", "[", "1", "-", "9", "]", "\\", "d", "{", "9", "}", "$" >>

\* line 63: ^\d{2}-(0[1-9]|1[0-2])-(0[1-9]|[12]\d|3[01])$
SHORT_DATE ==
    << "^", "\\", "d", "{", "2", "}", "-", "(", "0", "[", "1", "-", "9", "]", "|", "1", "[", "0",
       "-", "2", "]", ")", "-", "(", "0", "[", "1", "-", "9", "]", "|", "[", "1", "2", "]", "\\",
       "d", "|", "3", "[", "0", "1", "]", ")", "$" >>

\* line 64: ^(0?[1-9]|[12]\d|3[01])(JAN|FEB|MAR|APR|MAY|JUN|JUL|AUG|SEP|OCT|NOV|DEC)\d{4}:([01]\d|2[0-3]):[0-5]\d:[0-5]\d$
SAS_DATETIME ==
    << "^", "(", "0", "?", "[", "1", "-", "9", "]", "|", "[", "1", "2", "]", "\\", "d", "|", "3",
       "[", "0", "1", "]", ")", "(", "J", "A", "N", "|", "F", "E", "B", "|", "M", "A", "R", "|",
       "A", "P", "R", "|", "M", "A", "Y", "|", "J", "U", "N", "|", "J", "U", "L", "|", "A", "U",
       "G", "|", "S", "E", "P", "|", "O", "C", "T", "|", "N", "O", "V", "|", "D", "E", "C", ")",
       "\\", "d", "{", "4", "}", ":", "(", "[", "0", "1", "]", "\\", "d", "|", "2", "[", "0",
       "-", "3", "]", ")", ":", "[", "0", "-", "5", "]", "\\", "d", ":", "[", "0", "-", "5", "]",
       "\\", "d", "$" >>

\* line 65: ^(0?[1-9]|1[0-2])/(0?[1-9]|[12]\d|3[01])/\d{4} (0?[1-9]|1[0-2]):[0-5]\d:[0-5]\d [AP]M$
DOTNET_DATETIME ==
    << "^", "(", "0", "?", "[", "1", "-", "9", "]", "|", "1", "[", "0", "-", "2", "]", ")", "/",
       "(", "0", "?", "[", "1", "-", "9", "]", "|", "[", "1", "2", "]", "\\", "d", "|", "3", "[",
       "0", "1", "]", ")", "/", "\\", "d", "{", "4", "}", " ", "(", "0", "?", "[", "1", "-", "9",
       "]", "|", "1", "[", "0", "-", "2", "]", ")", ":", "[", "0", "-", "5", "]", "\\", "d", ":",
       "[", "0", "-", "5", "]", "\\", "d", " ", "[", "A", "P", "]", "M", "$" >>

\* line 68: ^\d{4}-(0[1-9]|1[0-2])-(0[1-9]|[12]\d|3[01])-([01]\d|2[0-3])-[0-5]\d-[0-5]\d$
HYPHEN_SEPARATED ==
    << "^", "\\", "d", "{", "4", "}", "-", "(", "0", "[", "1", "-", "9", "]", "|", "1", "[", "0",
       "-", "2", "]", ")", "-", "(", "0", "[", "1", "-", "9", "]", "|", "[", "1", "2", "]", "\\",
       "d", "|", "3", "[", "0", "1", "]", ")", "-", "(", "[", "0", "1", "]", "\\", "d", "|", "2",
       "[", "0", "-", "3", "]", ")", "-", "[", "0", "-", "5", "]", "\\", "d", "-", "[", "0", "-",
       "5", "]", "\\", "d", "$" >>

\* line 69: ^\d{4}(0[1-9]|1[0-2])(0[1-9]|[12]\d|3[01])([01]\d|2[0-3])[0-5]\d[0-5]\d$
CONTINUOUS_DATETIME ==
    << "^", "\\", "d", "{", "4", "}", "(", "0", "[", "1", "-", "9", "]", "|", "1", "[", "0", "-",
       "2", "]", ")", "(", "0", "[", "1", "-", "9", "]", "|", "[", "1", "2", "]", "\\", "d", "|",
       "3", "[", "0", "1", "]", ")", "(", "[", "0", "1", "]", "\\", "d", "|", "2", "[", "0", "-",
       "3", "]", ")", "[", "0", "-", "5", "]", "\\", "d", "[", "0", "-", "5", "]", "\\", "d",
       "$" >>

\* line 70: ^\d{2}\.(00[1-9]|0[1-9]\d|[1-2]\d\d|3[0-5]\d|36[0-6])/([01]\d|2[0-3]):[0-5]\d:[0-5]\d$
NASA_MISSION ==
    << "^", "\\", "d", "{", "2", "}", "\\", ".", "(", "0", "0", "[", "1", "-", "9", "]", "|",
       "0", "[", "1", "-", "9", "]", "\\", "d", "|", "[", "1", "-", "2", "]", "\\", "d", "\\",
       "d", "|", "3", "[", "0", "-", "5", "]", "\\", "d", "|", "3", "6", "[", "0", "-", "6", "]",
       ")", "/", "(", "[", "0", "1", "]", "\\", "d", "|", "2", "[", "0", "-", "3", "]", ")", ":",
       "[", "0", "-", "5", "]", "\\", "d", ":", "[", "0", "-", "5", "]", "\\", "d", "$" >>

\* line 71: ^\d{4}:(0[1-9]|1[0-2]):(0[1-9]|[12]\d|3[01]) ([01]\d|2[0-3]):[0-5]\d:[0-5]\d$
EXIF_DATETIME ==
    << "^", "\\", "d", "{", "4", "}", ":", "(", "0", "[", "1", "-", "9", "]", "|", "1", "[", "0",
       "-", "2", "]", ")", ":", "(", "0", "[", "1", "-", "9", "]", "|", "[", "1", "2", "]", "\\",
       "d", "|", "3", "[", "0", "1", "]", ")", " ", "(", "[", "0", "1", "]", "\\", "d", "|", "2",
       "[", "0", "-", "3", "]", ")", ":", "[", "0", "-", "5", "]", "\\", "d", ":", "[", "0", "-",
       "5", "]", "\\", "d", "$" >>

\* line 72: ^24\d{4}\.\d{1,5}$
JULIAN_DATE ==
    << "^", "2", "4", "\\", "d", "{", "4", "}", "\\", ".", "\\", "d", "{", "1", ",", "5", "}",
       "$" >>

\* line 73: ^[5-6]\d{4}\.\d{1,5}$
MODIFIED_JULIAN_DATE ==
    << "^", "[", "5", "-", "6", "]", "\\", "d", "{", "4", "}", "\\", ".", "\\", "d", "{", "1",
       ",", "5", "}", "$" >>

\* line 74: ^\d{2}(00[1-9]|0[1-9]\d|[1-2]\d\d|3[0-5]\d|36[0-6])$
ORDINAL_DATE_SHORT ==
    << "^", "\\", "d", "{", "2", "}", "(", "0", "0", "[", "1", "-", "9", "]", "|", "0", "[", "1",
       "-", "9", "]", "\\", "d", "|", "[", "1", "-", "2", "]", "\\", "d", "\\", "d", "|", "3",
       "[", "0", "-", "5", "]", "\\", "d", "|", "3", "6", "[", "0", "-", "6", "]", ")", "$" >>

\* line 75: ^[1-2]\d{16}$
IBM_MAINFRAME ==
    << "^", "[", "1", "-", "2", "]", "\\", "d", "{", "1", "6", "}", "$" >>

\* line 78: ^(0[1-9]|[12]\d|3[01])([01]\d|2[0-3])[0-5]\dZ (JAN|FEB|MAR|APR|MAY|JUN|JUL|AUG|SEP|OCT|NOV|DEC) \d{2}$
AVIATION_METAR ==
    << "^", "(", "0", "[", "1", "-", "9", "]", "|", "[", "1", "2", "]", "\\", "d", "|", "3", "[",
       "0", "1", "]", ")", "(", "[", "0", "1", "]", "\\", "d", "|", "2", "[", "0", "-", "3", "]",
       ")", "[", "0", "-", "5", "]", "\\", "d", "Z", " ", "(", "J", "A", "N", "|", "F", "E", "B",
       "|", "M", "A", "R", "|", "A", "P", "R", "|", "M", "A", "Y", "|", "J", "U", "N", "|", "J",
       "U", "L", "|", "A", "U", "G", "|", "S", "E", "P", "|", "O", "C", "T", "|", "N", "O", "V",
       "|", "D", "E", "C", ")", " ", "\\", "d", "{", "2", "}", "$" >>

\* line 79: ^(00[1-9]|0[1-9]\d|[1-2]\d\d|3[0-5]\d|36[0-6]):([01]\d|2[0-3]):[0-5]\d:[0-5]\d:[0-5]\d$
BROADCAST_TIMECODE ==
    << "^", "(", "0", "0", "[", "1", "-", "9", "]", "|", "0", "[", "1", "-", "9", "]", "\\", "d",
       "|", "[", "1", "-", "2", "]", "\\", "d", "\\", "d", "|", "3", "[", "0", "-", "5", "]",
       "\\", "d", "|", "3", "6", "[", "0", "-", "6", "]", ")", ":", "(", "[", "0", "1", "]",
       "\\", "d", "|", "2", "[", "0", "-", "3", "]", ")", ":", "[", "0", "-", "5", "]", "\\",
       "d", ":", "[", "0", "-", "5", "]", "\\", "d", ":", "[", "0", "-", "5", "]", "\\", "d",
       "$" >>

\* line 80: ^([01]\d|2[0-3]):[0-5]\d:[0-5]\d:([0-2]\d|3[0-9])$
SMPTE_TIMECODE ==
    << "^", "(", "[", "0", "1", "]", "\\", "d", "|", "2", "[", "0", "-", "3", "]", ")", ":", "[",
       "0", "-", "5", "]", "\\", "d", ":", "[", "0", "-", "5", "]", "\\", "d", ":", "(", "[",
       "0", "-", "2", "]", "\\", "d", "|", "3", "[", "0", "-", "9", "]", ")", "$" >>

\* line 81: ^\d{4}-W(0[1-9]|[1-4]\d|5[0-3])$
ISO_WEEK ==
    << "^", "\\", "d", "{", "4", "}", "-", "W", "(", "0", "[", "1", "-", "9", "]", "|", "[", "1",
       "-", "4", "]", "\\", "d", "|", "5", "[", "0", "-", "3", "]", ")", "$" >>

\* line 82: ^W(0[1-9]|[1-4]\d|5[0-3])-\d{4}$
ALT_ISO_WEEK ==
    << "^", "W", "(", "0", "[", "1", "-", "9", "]", "|", "[", "1", "-", "4", "]", "\\", "d", "|",
       "5", "[", "0", "-", "3", "]", ")", "-", "\\", "d", "{", "4", "}", "$" >>

\* line 83: ^\d{2}(00[1-9]|0[1-9]\d|[1-2]\d\d|3[0-5]\d|36[0-6])$
JULIAN_SHORT ==
    << "^", "\\", "d", "{", "2", "}", "(", "0", "0", "[", "1", "-", "9", "]", "|", "0", "[", "1",
       "-", "9", "]", "\\", "d", "|", "[", "1", "-", "2", "]", "\\", "d", "\\", "d", "|", "3",
       "[", "0", "-", "5", "]", "\\", "d", "|", "3", "6", "[", "0", "-", "6", "]", ")", "$" >>

\* line 84: ^([01]\d|2[0-3])[0-5]\dUTC(Jan|Feb|Mar|Apr|May|Jun|Jul|Aug|Sep|Oct|Nov|Dec)(0[1-9]|[12]\d|3[01])$
AVIATION_MIXED ==
    << "^", "(", "[", "0", "1", "]", "\\", "d", "|", "2", "[", "0", "-", "3", "]", ")", "[", "0",
       "-", "5", "]", "\\", "d", "U", "T", "C", "(", "J", "a", "n", "|", "F", "e", "b", "|", "M",
       "a", "r", "|", "A", "p", "r", "|", "M", "a", "y", "|", "J", "u", "n", "|", "J", "u", "l",
       "|", "A", "u", "g", "|", "S", "e", "p", "|", "O", "c", "t", "|", "N", "o", "v", "|", "D",
       "e", "c", ")", "(", "0", "[", "1", "-", "9", "]", "|", "[", "1", "2", "]", "\\", "d", "|",
       "3", "[", "0", "1", "]", ")", "$" >>

\* line 87: ^\d{4}-(0[1-9]|1[0-2])-(0[1-9]|[12]\d|3[01])T([01]\d|2[0-3]):[0-5]\d:[0-5]\d(?:\.\d{1,9})?Z$
ZULU_INDICATOR ==
    << "^", "\\", "d", "{", "4", "}", "-", "(", "0", "[", "1", "-", "9", "]", "|", "1", "[", "0",
       "-", "2", "]", ")", "-", "(", "0", "[", "1", "-", "9", "]", "|", "[", "1", "2", "]", "\\",
       "d", "|", "3", "[", "0", "1", "]", ")", "T", "(", "[", "0", "1", "]", "\\", "d", "|", "2",
       "[", "0", "-", "3", "]", ")", ":", "[", "0", "-", "5", "]", "\\", "d", ":", "[", "0", "-",
       "5", "]", "\\", "d", "(", "?", ":", "\\", ".", "\\", "d", "{", "1", ",", "9", "}", ")",
       "?", "Z", "$" >>

\* line 88: ^\d{4}-(0[1-9]|1[0-2])-(0[1-9]|[12]\d|3[01])T([01]\d|2[0-3]):[0-5]\d:[0-5]\d(?:\.\d{1,9})?[+-]([01]\d|2[0-3]):[0-5]\d$
ISO_TZ_OFFSET ==
    << "^", "\\", "d", "{", "4", "}", "-", "(", "0", "[", "1", "-", "9", "]", "|", "1", "[", "0",
       "-", "2", "]", ")", "-", "(", "0", "[", "1", "-", "9", "]", "|", "[", "1", "2", "]", "\\",
       "d", "|", "3", "[", "0", "1", "]", ")", "T", "(", "[", "0", "1", "]", "\\", "d", "|", "2",
       "[", "0", "-", "3", "]", ")", ":", "[", "0", "-", "5", "]", "\\", "d", ":", "[", "0", "-",
       "5", "]", "\\", "d", "(", "?", ":", "\\", ".", "\\", "d", "{", "1", ",", "9", "}", ")",
       "?", "[", "+", "-", "]", "(", "[", "0", "1", "]", "\\", "d", "|", "2", "[", "0", "-", "3",
       "]", ")", ":", "[", "0", "-", "5", "]", "\\", "d", "$" >>

\* line 89: ^\d{4}-(0[1-9]|1[0-2])-(0[1-9]|[12]\d|3[01])T([01]\d|2[0-3]):[0-5]\d:[0-5]\d(?:\.\d{1,9})?[+-]([01]\d|2[0-3])[0-5]\d$
COMPACT_TZ_OFFSET ==
    << "^", "\\", "d", "{", "4", "}", "-", "(", "0", "[", "1", "-", "9", "]", "|", "1", "[", "0",
       "-", "2", "]", ")", "-", "(", "0", "[", "1", "-", "9", "]", "|", "[", "1", "2", "]", "\\",
       "d", "|", "3", "[", "0", "1", "]", ")", "T", "(", "[", "0", "1", "]", "\\", "d", "|", "2",
       "[", "0", "-", "3", "]", ")", ":", "[", "0", "-", "5", "]", "\\", "d", ":", "[", "0", "-",
       "5", "]", "\\", "d", "(", "?", ":", "\\", ".", "\\", "d", "{", "1", ",", "9", "}", ")",
       "?", "[", "+", "-", "]", "(", "[", "0", "1", "]", "\\", "d", "|", "2", "[", "0", "-", "3",
       "]", ")", "[", "0", "-", "5", "]", "\\", "d", "$" >>

\* line 90: ^\d{4}-(0[1-9]|1[0-2])-(0[1-9]|[12]\d|3[01]) ([01]\d|2[0-3]):[0-5]\d:[0-5]\d GMT[+-]([01]\d|2[0-3]):[0-5]\d$
GMT_OFFSET ==
    << "^", "\\", "d", "{", "4", "}", "-", "(", "0", "[", "1", "-", "9", "]", "|", "1", "[", "0",
       "-", "2", "]", ")", "-", "(", "0", "[", "1", "-", "9", "]", "|", "[", "1", "2", "]", "\\",
       "d", "|", "3", "[", "0", "1", "]", ")", " ", "(", "[", "0", "1", "]", "\\", "d", "|", "2",
       "[", "0", "-", "3", "]", ")", ":", "[", "0", "-", "5", "]", "\\", "d", ":", "[", "0", "-",
       "5", "]", "\\", "d", " ", "G", "M", "T", "[", "+", "-", "]", "(", "[", "0", "1", "]",
       "\\", "d", "|", "2", "[", "0", "-", "3", "]", ")", ":", "[", "0", "-", "5", "]", "\\",
       "d", "$" >>

\* line 91: ^\d{4}-(0[1-9]|1[0-2])-(0[1-9]|[12]\d|3[01]) ([01]\d|2[0-3]):[0-5]\d:[0-5]\d [A-Z]{3,5}$
NAMED_TIMEZONE ==
    << "^", "\\", "d", "{", "4", "}", "-", "(", "0", "[", "1", "-", "9", "]", "|", "1", "[", "0",
       "-", "2", "]", ")", "-", "(", "0", "[", "1", "-", "9", "]", "|", "[", "1", "2", "]", "\\",
       "d", "|", "3", "[", "0", "1", "]", ")", " ", "(", "[", "0", "1", "]", "\\", "d", "|", "2",
       "[", "0", "-", "3", "]", ")", ":", "[", "0", "-", "5", "]", "\\", "d", ":", "[", "0", "-",
       "5", "]", "\\", "d", " ", "[", "A", "-", "Z", "]", "{", "3", ",", "5", "}", "$" >>

\* line 92: ^\d{4}-(0[1-9]|1[0-2])-(0[1-9]|[12]\d|3[01]) ([01]\d|2[0-3]):[0-5]\d:[0-5]\d [A-Za-z]+/[A-Za-z_]+$
IANA_TIMEZONE ==
    << "^", "\\", "d", "{", "4", "}", "-", "(", "0", "[", "1", "-", "9", "]", "|", "1", "[", "0",
       "-", "2", "]", ")", "-", "(", "0", "[", "1", "-", "9", "]", "|", "[", "1", "2", "]", "\\",
       "d", "|", "3", "[", "0", "1", "]", ")", " ", "(", "[", "0", "1", "]", "\\", "d", "|", "2",
       "[", "0", "-", "3", "]", ")", ":", "[", "0", "-", "5", "]", "\\", "d", ":", "[", "0", "-",
       "5", "]", "\\", "d", " ", "[", "A", "-", "Z", "a", "-", "z", "]", "+", "/", "[", "A", "-",
       "Z", "a", "-", "z", "_", "]", "+", "$" >>

\* line 93: ^\d{4}-(0[1-9]|1[0-2])-(0[1-9]|[12]\d|3[01]) ([01]\d|2[0-3]):[0-5]\d:[0-5]\d UTC[+-]([01]?\d|2[0-3])$
SIMPLE_UTC_OFFSET ==
    << "^", "\\", "d", "{", "4", "}", "-", "(", "0", "[", "1", "-", "9", "]", "|", "1", "[", "0",
       "-", "2", "]", ")", "-", "(", "0", "[", "1", "-", "9", "]", "|", "[", "1", "2", "]", "\\",
       "d", "|", "3", "[", "0", "1", "]", ")", " ", "(", "[", "0", "1", "]", "\\", "d", "|", "2",
       "[", "0", "-", "3", "]", ")", ":", "[", "0", "-", "5", "]", "\\", "d", ":", "[", "0", "-",
       "5", "]", "\\", "d", " ", "U", "T", "C", "[", "+", "-", "]", "(", "[", "0", "1", "]", "?",
       "\\", "d", "|", "2", "[", "0", "-", "3", "]", ")", "$" >>

\* line 96: ^\d{4}-(0[1-9]|1[0-2])-(0[1-9]|[12]\d|3[01])T([01]\d|2[0-3]):[0-5]\d:[0-5]\d\.\d{1,3}[+-]([01]\d|2[0-3]):[0-5]\d\[[A-Za-z/]+\]$
JAVA8_DATETIME ==
    << "^", "\\", "d", "{", "4", "}", "-", "(", "0", "[", "1", "-", "9", "]", "|", "1", "[", "0",
       "-", "2", "]", ")", "-", "(", "0", "[", "1", "-", "9", "]", "|", "[", "1", "2", "]", "\\",
       "d", "|", "3", "[", "0", "1", "]", ")", "T", "(", "[", "0", "1", "]", "\\", "d", "|", "2",
       "[", "0", "-", "3", "]", ")", ":", "[", "0", "-", "5", "]", "\\", "d", ":", "[", "0", "-",
       "5", "]", "\\", "d", "\\", ".", "\\", "d", "{", "1", ",", "3", "}", "[", "+", "-", "]",
       "(", "[", "0", "1", "]", "\\", "d", "|", "2", "[", "0", "-", "3", "]", ")", ":", "[", "0",
       "-", "5", "]", "\\", "d", "\\", "[", "[", "A", "-", "Z", "a", "-", "z", "/", "]", "+",
       "\\", "]", "$" >>

\* line 97: ^[+-][1-9]\d{9}$
SIGNED_UNIX ==
    << "^", "[", "+", "-", "]", "[", "1", "-", "9", "]", "\\", "d", "{", "9", "}", "$" >>

\* line 98: ^@[1-9]\d{12}/\d{4}-(0[1-9]|1[0-2])-(0[1-9]|[12]\d|3[01])$
HYBRID_TIMESTAMP ==
    << "^", "@", "[", "1", "-", "9", "]", "\\", "d", "{", "1", "2", "}", "/", "\\", "d", "{",
       "4", "}", "-", "(", "0", "[", "1", "-", "9", "]", "|", "1", "[", "0", "-", "2", "]", ")",
       "-", "(", "0", "[", "1", "-", "9", "]", "|", "[", "1", "2", "]", "\\", "d", "|", "3", "[",
       "0", "1", "]", ")", "$" >>

\* The W3C_DTF pattern with an offset written without its colon.
W3C_DTF_Colonless ==
    << "^", "\\", "d", "{", "4", "}", "-", "(", "0", "[", "1", "-", "9", "]", "|", "1", "[", "0",
       "-", "2", "]", ")", "-", "(", "0", "[", "1", "-", "9", "]", "|", "[", "1", "2", "]", "\\",
       "d", "|", "3", "[", "0", "1", "]", ")", "T", "(", "[", "0", "1", "]", "\\", "d", "|", "2",
       "[", "0", "-", "3", "]", ")", ":", "[", "0", "-", "5", "]", "\\", "d", ":", "[", "0", "-",
       "5", "]", "\\", "d", "[", "+", "-", "]", "(", "[", "0", "1", "]", "\\", "d", "|", "2",
       "[", "0", "-", "3", "]", ")", "[", "0", "-", "5", "]", "\\", "d", "$" >>

\* line 99: ^\d{4}-(0[1-9]|1[0-2])-(0[1-9]|[12]\d|3[01])T([01]\d|2[0-3]):[0-5]\d:[0-5]\d[+-]([01]\d|2[0-3]):[0-5]\d$
W3C_DTF ==
    << "^", "\\", "d", "{", "4", "}", "-", "(", "0", "[", "1", "-", "9", "]", "|", "1", "[", "0",
       "-", "2", "]", ")", "-", "(", "0", "[", "1", "-", "9", "]", "|", "[", "1", "2", "]", "\\",
       "d", "|", "3", "[", "0", "1", "]", ")", "T", "(", "[", "0", "1", "]", "\\", "d", "|", "2",
       "[", "0", "-", "3", "]", ")", ":", "[", "0", "-", "5", "]", "\\", "d", ":", "[", "0", "-",
       "5", "]", "\\", "d", "[", "+", "-", "]", "(", "[", "0", "1", "]", "\\", "d", "|", "2",
       "[", "0", "-", "3", "]", ")", ":", "[", "0", "-", "5", "]", "\\", "d", "$" >>

\* line 100: ^<[1-9]\d{9}>$
XML_TIMESTAMP ==
    << "^", "<", "[", "1", "-", "9", "]", "\\", "d", "{", "9", "}", ">", "$" >>

\* line 101: ^\d{4}\.(0[1-9]|[1-4]\d|5[0-3])\.[1-7]$
ISO_WEEK_WEEKDAY ==
    << "^", "\\", "d", "{", "4", "}", "\\", ".", "(", "0", "[", "1", "-", "9", "]", "|", "[",
       "1", "-", "4", "]", "\\", "d", "|", "5", "[", "0", "-", "3", "]", ")", "\\", ".", "[",
       "1", "-", "7", "]", "$" >>

\* line 102: ^(?:[1-9]\d{9}|[1-9]\d{12}|[1-9]\d{15}|[1-9]\d{18})$
CUSTOM_EPOCH ==
    << "^", "(", "?", ":", "[", "1", "-", "9", "]", "\\", "d", "{", "9", "}", "|", "[", "1", "-",
       "9", "]", "\\", "d", "{", "1", "2", "}", "|", "[", "1", "-", "9", "]", "\\", "d", "{",
       "1", "5", "}", "|", "[", "1", "-", "9", "]", "\\", "d", "{", "1", "8", "}", ")", "$" >>

\* line 103: ^\d{2}(0[1-9]|1[0-2])(0[1-9]|[12]\d|3[01])-([01]\d|2[0-3])[0-5]\d[0-5]\d$
COMPACT_DATETIME ==
    << "^", "\\", "d", "{", "2", "}", "(", "0", "[", "1", "-", "9", "]", "|", "1", "[", "0", "-",
       "2", "]", ")", "(", "0", "[", "1", "-", "9", "]", "|", "[", "1", "2", "]", "\\", "d", "|",
       "3", "[", "0", "1", "]", ")", "-", "(", "[", "0", "1", "]", "\\", "d", "|", "2", "[", "0",
       "-", "3", "]", ")", "[", "0", "-", "5", "]", "\\", "d", "[", "0", "-", "5", "]", "\\",
       "d", "$" >>

\* line 106: ^[\u4E00-\u9FFF<U5E74><U6708><U65E5>]+$
CHINESE_CALENDAR ==
    << "^", "[", "\\", "u", "4", "E", "0", "0", "-", "\\", "u", "9", "F", "F", "F", "U5E74",
       "U6708", "U65E5", "]", "+", "$" >>

\* line 107: ^1[3-5]\d{2}-(0[1-9]|1[0-2])-(0[1-9]|[12]\d|30)$
ISLAMIC_CALENDAR ==
    << "^", "1", "[", "3", "-", "5", "]", "\\", "d", "{", "2", "}", "-", "(", "0", "[", "1", "-",
       "9", "]", "|", "1", "[", "0", "-", "2", "]", ")", "-", "(", "0", "[", "1", "-", "9", "]",
       "|", "[", "1", "2", "]", "\\", "d", "|", "3", "0", ")", "$" >>

\* line 108: ^5[7-8]\d{2}-(0[1-9]|1[0-2])-(0[1-9]|[12]\d|30)$
HEBREW_CALENDAR ==
    << "^", "5", "[", "7", "-", "8", "]", "\\", "d", "{", "2", "}", "-", "(", "0", "[", "1", "-",
       "9", "]", "|", "1", "[", "0", "-", "2", "]", ")", "-", "(", "0", "[", "1", "-", "9", "]",
       "|", "[", "1", "2", "]", "\\", "d", "|", "3", "0", ")", "$" >>

\* line 109: ^\d{4} (Chaitra|Vaisakha|Jyaishtha|Ashadha|Sravana|Bhadra|Asvina|Kartika|Agrahayana|Pausha|Magha|Phalguna) (0?[1-9]|[12]\d|3[0-1])$
INDIAN_CALENDAR ==
    << "^", "\\", "d", "{", "4", "}", " ", "(", "C", "h", "a", "i", "t", "r", "a", "|", "V", "a",
       "i", "s", "a", "k", "h", "a", "|", "J", "y", "a", "i", "s", "h", "t", "h", "a", "|", "A",
       "s", "h", "a", "d", "h", "a", "|", "S", "r", "a", "v", "a", "n", "a", "|", "B", "h", "a",
       "d", "r", "a", "|", "A", "s", "v", "i", "n", "a", "|", "K", "a", "r", "t", "i", "k", "a",
       "|", "A", "g", "r", "a", "h", "a", "y", "a", "n", "a", "|", "P", "a", "u", "s", "h", "a",
       "|", "M", "a", "g", "h", "a", "|", "P", "h", "a", "l", "g", "u", "n", "a", ")", " ", "(",
       "0", "?", "[", "1", "-", "9", "]", "|", "[", "1", "2", "]", "\\", "d", "|", "3", "[", "0",
       "-", "1", "]", ")", "$" >>

\* line 110: ^25\d{2}-(0[1-9]|1[0-2])-(0[1-9]|[12]\d|3[01])$
THAI_CALENDAR ==
    << "^", "2", "5", "\\", "d", "{", "2", "}", "-", "(", "0", "[", "1", "-", "9", "]", "|", "1",
       "[", "0", "-", "2", "]", ")", "-", "(", "0", "[", "1", "-", "9", "]", "|", "[", "1", "2",
       "]", "\\", "d", "|", "3", "[", "0", "1", "]", ")", "$" >>

\* The JAPANESE_CALENDAR pattern with the group of era names left open.
JAPANESE_CALENDAR_Unclosed ==
    << "^", "(", "U4EE4", "U548C", "|", "U5E73", "U6210", "|", "U662D", "U548C", "|", "U5927",
       "U6B63", "|", "U660E", "U6CBB", "\\", "d", "{", "1", ",", "2", "}", "U5E74", "(", "0",
       "?", "[", "1", "-", "9", "]", "|", "1", "[", "0", "-", "2", "]", ")", "U6708", "(", "0",
       "?", "[", "1", "-", "9", "]", "|", "[", "1", "2", "]", "\\", "d", "|", "3", "[", "0", "1",
       "]", ")", "U65E5", "$" >>

\* line 111: ^(<U4EE4><U548C>|<U5E73><U6210>|<U662D><U548C>|<U5927><U6B63>|<U660E><U6CBB>)\d{1,2}<U5E74>(0?[1-9]|1[0-2])<U6708>(0?[1-9]|[12]\d|3[01])<U65E5>$
JAPANESE_CALENDAR ==
    << "^", "(", "U4EE4", "U548C", "|", "U5E73", "U6210", "|", "U662D", "U548C", "|", "U5927",
       "U6B63", "|", "U660E", "U6CBB", ")", "\\", "d", "{", "1", ",", "2", "}", "U5E74", "(",
       "0", "?", "[", "1", "-", "9", "]", "|", "1", "[", "0", "-", "2", "]", ")", "U6708", "(",
       "0", "?", "[", "1", "-", "9", "]", "|", "[", "1", "2", "]", "\\", "d", "|", "3", "[", "0",
       "1", "]", ")", "U65E5", "$" >>

\* The builder's statements: map.insert(name, pattern), in source order.
Inserts ==
  <<
     <<"ISO_DATE", ISO_DATE>>,
     <<"ISO_DATETIME", ISO_DATETIME>>,
     <<"ISO_DATETIME_UTC", ISO_DATETIME_UTC>>,
     <<"ISO_DATETIME_TZ", ISO_DATETIME_TZ>>,
     <<"ISO_DATETIME_MS", ISO_DATETIME_MS>>,
     <<"ISO_DATETIME_MS_UTC", ISO_DATETIME_MS_UTC>>,
     <<"ISO_DATE_BASIC", ISO_DATE_BASIC>>,
     <<"ISO_DATETIME_BASIC", ISO_DATETIME_BASIC>>,
     <<"ISO_ORDINAL_DATE", ISO_ORDINAL_DATE>>,
     <<"ISO_WEEK_DATE", ISO_WEEK_DATE>>,
     <<"UNIX_SECONDS", UNIX_SECONDS>>,
     <<"UNIX_MILLISECONDS", UNIX_MILLISECONDS>>,
     <<"UNIX_MICROSECONDS", UNIX_MICROSECONDS>>,
     <<"UNIX_NANOSECONDS", UNIX_NANOSECONDS>>,
     <<"RFC_822_1123", RFC_822_1123>>,
     <<"RFC_850_1036", RFC_850_1036>>,
     <<"ANSI_C_ASCTIME", ANSI_C_ASCTIME>>,
     <<"RFC_3339", RFC_3339>>,
     <<"US_DATETIME", US_DATETIME>>,
     <<"EU_DATETIME", EU_DATETIME>>,
     <<"ASIAN_DATETIME", ASIAN_DATETIME>>,
     <<"GERMAN_DATETIME", GERMAN_DATETIME>>,
     <<"UK_DATETIME", UK_DATETIME>>,
     <<"SHORT_EU_DATETIME", SHORT_EU_DATETIME>>,
     <<"SHORT_US_DATETIME", SHORT_US_DATETIME>>,
     <<"TIME_LEADING_FORMAT", TIME_LEADING_FORMAT>>,
     <<"TIME_24H", TIME_24H>>,
     <<"TIME_24H_MS", TIME_24H_MS>>,
     <<"TIME_12H", TIME_12H>>,
     <<"TIME_12H_SHORT", TIME_12H_SHORT>>,
     <<"TIME_CONTINUOUS_MS", TIME_CONTINUOUS_MS>>,
     <<"TIME_MILITARY", TIME_MILITARY>>,
     <<"SQL_TIMESTAMP", SQL_TIMESTAMP>>,
     <<"SQL_TIMESTAMP_MS", SQL_TIMESTAMP_MS>>,
     <<"ORACLE_TIMESTAMP", ORACLE_TIMESTAMP>>,
     <<"DB2_TIMESTAMP", DB2_TIMESTAMP>>,
     <<"MSSQL_TIMESTAMP", MSSQL_TIMESTAMP>>,
     <<"COMPACT_TIMESTAMP", COMPACT_TIMESTAMP>>,
     <<"POSTGRES_TIMESTAMP_TZ", POSTGRES_TIMESTAMP_TZ>>,
     <<"TAGGED_UNIX", TAGGED_UNIX>>,
     <<"SHORT_DATE", SHORT_DATE>>,
     <<"SAS_DATETIME", SAS_DATETIME>>,
     <<"DOTNET_DATETIME", DOTNET_DATETIME>>,
     <<"HYPHEN_SEPARATED", HYPHEN_SEPARATED>>,
     <<"CONTINUOUS_DATETIME", CONTINUOUS_DATETIME>>,
     <<"NASA_MISSION", NASA_MISSION>>,
     <<"EXIF_DATETIME", EXIF_DATETIME>>,
     <<"JULIAN_DATE", JULIAN_DATE>>,
     <<"MODIFIED_JULIAN_DATE", MODIFIED_JULIAN_DATE>>,
     <<"ORDINAL_DATE_SHORT", ORDINAL_DATE_SHORT>>,
     <<"IBM_MAINFRAME", IBM_MAINFRAME>>,
     <<"AVIATION_METAR", AVIATION_METAR>>,
     <<"BROADCAST_TIMECODE", BROADCAST_TIMECODE>>,
     <<"SMPTE_TIMECODE", SMPTE_TIMECODE>>,
     <<"ISO_WEEK", ISO_WEEK>>,
     <<"ALT_ISO_WEEK", ALT_ISO_WEEK>>,
     <<"JULIAN_SHORT", JULIAN_SHORT>>,
     <<"AVIATION_MIXED", AVIATION_MIXED>>,
     <<"ZULU_INDICATOR", ZULU_INDICATOR>>,
     <<"ISO_TZ_OFFSET", ISO_TZ_OFFSET>>,
     <<"COMPACT_TZ_OFFSET", COMPACT_TZ_OFFSET>>,
     <<"GMT_OFFSET", GMT_OFFSET>>,
     <<"NAMED_TIMEZONE", NAMED_TIMEZONE>>,
     <<"IANA_TIMEZONE", IANA_TIMEZONE>>,
     <<"SIMPLE_UTC_OFFSET", SIMPLE_UTC_OFFSET>>,
     <<"JAVA8_DATETIME", JAVA8_DATETIME>>,
     <<"SIGNED_UNIX", SIGNED_UNIX>>,
     <<"HYBRID_TIMESTAMP", HYBRID_TIMESTAMP>>,
     <<"W3C_DTF", W3C_DTF>>,
     <<"XML_TIMESTAMP", XML_TIMESTAMP>>,
     <<"ISO_WEEK_WEEKDAY", ISO_WEEK_WEEKDAY>>,
     <<"CUSTOM_EPOCH", CUSTOM_EPOCH>>,
     <<"COMPACT_DATETIME", COMPACT_DATETIME>>,
     <<"CHINESE_CALENDAR", CHINESE_CALENDAR>>,
     <<"ISLAMIC_CALENDAR", ISLAMIC_CALENDAR>>,
     <<"HEBREW_CALENDAR", HEBREW_CALENDAR>>,
     <<"INDIAN_CALENDAR", INDIAN_CALENDAR>>,
     <<"THAI_CALENDAR", THAI_CALENDAR>>,
     <<"JAPANESE_CALENDAR", JAPANESE_CALENDAR>> >>

(***************************************************************************)
(* HashMap                                                                 *)
(***************************************************************************)

(***************************************************************************)
(* The other revision of the catalog, time-patterns.rs: the same insert    *)
(* statements with the patterns of that file.                              *)
(***************************************************************************)

LooseInserts ==
  <<
     \* line 11: ^\d{4}-\d{2}-\d{2}$
     << "ISO_DATE",
        << "^", "\\", "d", "{", "4", "}", "-", "\\", "d", "{", "2", "}", "-", "\\", "d", "{",
           "2", "}", "$" >> >>,
     \* line 12: ^\d{4}-\d{2}-\d{2}T\d{2}:\d{2}:\d{2}$
     << "ISO_DATETIME",
        << "^", "\\", "d", "{", "4", "}", "-", "\\", "d", "{", "2", "}", "-", "\\", "d", "{",
           "2", "}", "T", "\\", "d", "{", "2", "}", ":", "\\", "d", "{", "2", "}", ":", "\\",
           "d", "{", "2", "}", "$" >> >>,
     \* line 13: ^\d{4}-\d{2}-\d{2}T\d{2}:\d{2}:\d{2}Z$
     << "ISO_DATETIME_UTC",
        << "^", "\\", "d", "{", "4", "}", "-", "\\", "d", "{", "2", "}", "-", "\\", "d", "{",
           "2", "}", "T", "\\", "d", "{", "2", "}", ":", "\\", "d", "{", "2", "}", ":", "\\",
           "d", "{", "2", "}", "Z", "$" >> >>,
     \* line 14: ^\d{4}-\d{2}-\d{2}T\d{2}:\d{2}:\d{2}[+-]\d{2}:\d{2}$
     << "ISO_DATETIME_TZ",
        << "^", "\\", "d", "{", "4", "}", "-", "\\", "d", "{", "2", "}", "-", "\\", "d", "{",
           "2", "}", "T", "\\", "d", "{", "2", "}", ":", "\\", "d", "{", "2", "}", ":", "\\",
           "d", "{", "2", "}", "[", "+", "-", "]", "\\", "d", "{", "2", "}", ":", "\\", "d", "{",
           "2", "}", "$" >> >>,
     \* line 15: ^\d{4}-\d{2}-\d{2}T\d{2}:\d{2}:\d{2}\.\d{1,9}$
     << "ISO_DATETIME_MS",
        << "^", "\\", "d", "{", "4", "}", "-", "\\", "d", "{", "2", "}", "-", "\\", "d", "{",
           "2", "}", "T", "\\", "d", "{", "2", "}", ":", "\\", "d", "{", "2", "}", ":", "\\",
           "d", "{", "2", "}", "\\", ".", "\\", "d", "{", "1", ",", "9", "}", "$" >> >>,
     \* line 16: ^\d{4}-\d{2}-\d{2}T\d{2}:\d{2}:\d{2}\.\d{1,9}Z$
     << "ISO_DATETIME_MS_UTC",
        << "^", "\\", "d", "{", "4", "}", "-", "\\", "d", "{", "2", "}", "-", "\\", "d", "{",
           "2", "}", "T", "\\", "d", "{", "2", "}", ":", "\\", "d", "{", "2", "}", ":", "\\",
           "d", "{", "2", "}", "\\", ".", "\\", "d", "{", "1", ",", "9", "}", "Z", "$" >> >>,
     \* line 17: ^\d{8}$
     << "ISO_DATE_BASIC",
        << "^", "\\", "d", "{", "8", "}", "$" >> >>,
     \* line 18: ^\d{8}T\d{6}$
     << "ISO_DATETIME_BASIC",
        << "^", "\\", "d", "{", "8", "}", "T", "\\", "d", "{", "6", "}", "$" >> >>,
     \* line 19: ^\d{4}-\d{3}$
     << "ISO_ORDINAL_DATE",
        << "^", "\\", "d", "{", "4", "}", "-", "\\", "d", "{", "3", "}", "$" >> >>,
     \* line 20: ^\d{4}-W\d{2}-\d{1}$
     << "ISO_WEEK_DATE",
        << "^", "\\", "d", "{", "4", "}", "-", "W", "\\", "d", "{", "2", "}", "-", "\\", "d",
           "{", "1", "}", "$" >> >>,
     \* line 23: ^[1-9]\d{9}$
     << "UNIX_SECONDS",
        << "^", "[", "1", "-", "9", "]", "\\", "d", "{", "9", "}", "$" >> >>,
     \* line 24: ^[1-9]\d{12}$
     << "UNIX_MILLISECONDS",
        << "^", "[", "1", "-", "9", "]", "\\", "d", "{", "1", "2", "}", "$" >> >>,
     \* line 25: ^[1-9]\d{15}$
     << "UNIX_MICROSECONDS",
        << "^", "[", "1", "-", "9", "]", "\\", "d", "{", "1", "5", "}", "$" >> >>,
     \* line 26: ^[1-9]\d{18}$
     << "UNIX_NANOSECONDS",
        << "^", "[", "1", "-", "9", "]", "\\", "d", "{", "1", "8", "}", "$" >> >>,
     \* line 29: ^[A-Z][a-z]{2}, \d{1,2} [A-Z][a-z]{2} \d{4} \d{2}:\d{2}:\d{2} GMT$
     << "RFC_822_1123",
        << "^", "[", "A", "-", "Z", "]", "[", "a", "-", "z", "]", "{", "2", "}", ",", " ", "\\",
           "d", "{", "1", ",", "2", "}", " ", "[", "A", "-", "Z", "]", "[", "a", "-", "z", "]",
           "{", "2", "}", " ", "\\", "d", "{", "4", "}", " ", "\\", "d", "{", "2", "}", ":",
           "\\", "d", "{", "2", "}", ":", "\\", "d", "{", "2", "}", " ", "G", "M", "T", "$" >> >>,
     \* line 30: ^[A-Z][a-z]+, \d{1,2}-[A-Z][a-z]{2}-\d{2} \d{2}:\d{2}:\d{2} GMT$
     << "RFC_850_1036",
        << "^", "[", "A", "-", "Z", "]", "[", "a", "-", "z", "]", "+", ",", " ", "\\", "d", "{",
           "1", ",", "2", "}", "-", "[", "A", "-", "Z", "]", "[", "a", "-", "z", "]", "{", "2",
           "}", "-", "\\", "d", "{", "2", "}", " ", "\\", "d", "{", "2", "}", ":", "\\", "d",
           "{", "2", "}", ":", "\\", "d", "{", "2", "}", " ", "G", "M", "T", "$" >> >>,
     \* line 31: ^[A-Z][a-z]{2} [A-Z][a-z]{2} \d{1,2} \d{2}:\d{2}:\d{2} \d{4}$
     << "ANSI_C_ASCTIME",
        << "^", "[", "A", "-", "Z", "]", "[", "a", "-", "z", "]", "{", "2", "}", " ", "[", "A",
           "-", "Z", "]", "[", "a", "-", "z", "]", "{", "2", "}", " ", "\\", "d", "{", "1", ",",
           "2", "}", " ", "\\", "d", "{", "2", "}", ":", "\\", "d", "{", "2", "}", ":", "\\",
           "d", "{", "2", "}", " ", "\\", "d", "{", "4", "}", "$" >> >>,
     \* line 32: ^\d{4}-\d{2}-\d{2}T\d{2}:\d{2}:\d{2}[+-]\d{2}:\d{2}$
     << "RFC_3339",
        << "^", "\\", "d", "{", "4", "}", "-", "\\", "d", "{", "2", "}", "-", "\\", "d", "{",
           "2", "}", "T", "\\", "d", "{", "2", "}", ":", "\\", "d", "{", "2", "}", ":", "\\",
           "d", "{", "2", "}", "[", "+", "-", "]", "\\", "d", "{", "2", "}", ":", "\\", "d", "{",
           "2", "}", "$" >> >>,
     \* line 35: ^\d{1,2}/\d{1,2}/\d{4} \d{2}:\d{2}:\d{2}$
     << "US_DATETIME",
        << "^", "\\", "d", "{", "1", ",", "2", "}", "/", "\\", "d", "{", "1", ",", "2", "}", "/",
           "\\", "d", "{", "4", "}", " ", "\\", "d", "{", "2", "}", ":", "\\", "d", "{", "2",
           "}", ":", "\\", "d", "{", "2", "}", "$" >> >>,
     \* line 36: ^\d{1,2}/\d{1,2}/\d{4} \d{2}:\d{2}:\d{2}$
     << "EU_DATETIME",
        << "^", "\\", "d", "{", "1", ",", "2", "}", "/", "\\", "d", "{", "1", ",", "2", "}", "/",
           "\\", "d", "{", "4", "}", " ", "\\", "d", "{", "2", "}", ":", "\\", "d", "{", "2",
           "}", ":", "\\", "d", "{", "2", "}", "$" >> >>,
     \* line 37: ^\d{4}/\d{1,2}/\d{1,2} \d{2}:\d{2}:\d{2}$
     << "ASIAN_DATETIME",
        << "^", "\\", "d", "{", "4", "}", "/", "\\", "d", "{", "1", ",", "2", "}", "/", "\\",
           "d", "{", "1", ",", "2", "}", " ", "\\", "d", "{", "2", "}", ":", "\\", "d", "{", "2",
           "}", ":", "\\", "d", "{", "2", "}", "$" >> >>,
     \* line 38: ^\d{1,2}\.\d{1,2}\.\d{4} \d{2}:\d{2}:\d{2}$
     << "GERMAN_DATETIME",
        << "^", "\\", "d", "{", "1", ",", "2", "}", "\\", ".", "\\", "d", "{", "1", ",", "2",
           "}", "\\", ".", "\\", "d", "{", "4", "}", " ", "\\", "d", "{", "2", "}", ":", "\\",
           "d", "{", "2", "}", ":", "\\", "d", "{", "2", "}", "$" >> >>,
     \* line 39: ^\d{1,2}-[A-Z][a-z]{2}-\d{4} \d{2}:\d{2}:\d{2}$
     << "UK_DATETIME",
        << "^", "\\", "d", "{", "1", ",", "2", "}", "-", "[", "A", "-", "Z", "]", "[", "a", "-",
           "z", "]", "{", "2", "}", "-", "\\", "d", "{", "4", "}", " ", "\\", "d", "{", "2", "}",
           ":", "\\", "d", "{", "2", "}", ":", "\\", "d", "{", "2", "}", "$" >> >>,
     \* line 40: ^\d{1,2}-\d{1,2}-\d{2} \d{2}:\d{2}:\d{2}$
     << "SHORT_EU_DATETIME",
        << "^", "\\", "d", "{", "1", ",", "2", "}", "-", "\\", "d", "{", "1", ",", "2", "}", "-",
           "\\", "d", "{", "2", "}", " ", "\\", "d", "{", "2", "}", ":", "\\", "d", "{", "2",
           "}", ":", "\\", "d", "{", "2", "}", "$" >> >>,
     \* line 41: ^\d{1,2}-\d{1,2}-\d{2} \d{2}:\d{2}:\d{2}$
     << "SHORT_US_DATETIME",
        << "^", "\\", "d", "{", "1", ",", "2", "}", "-", "\\", "d", "{", "1", ",", "2", "}", "-",
           "\\", "d", "{", "2", "}", " ", "\\", "d", "{", "2", "}", ":", "\\", "d", "{", "2",
           "}", ":", "\\", "d", "{", "2", "}", "$" >> >>,
     \* line 42: ^\d{2}:\d{2}:\d{2} \d{1,2}/\d{1,2}/\d{4}$
     << "TIME_LEADING_FORMAT",
        << "^", "\\", "d", "{", "2", "}", ":", "\\", "d", "{", "2", "}", ":", "\\", "d", "{",
           "2", "}", " ", "\\", "d", "{", "1", ",", "2", "}", "/", "\\", "d", "{", "1", ",", "2",
           "}", "/", "\\", "d", "{", "4", "}", "$" >> >>,
     \* line 45: ^\d{2}:\d{2}:\d{2}$
     << "TIME_24H",
        << "^", "\\", "d", "{", "2", "}", ":", "\\", "d", "{", "2", "}", ":", "\\", "d", "{",
           "2", "}", "$" >> >>,
     \* line 46: ^\d{2}:\d{2}:\d{2}\.\d{1,3}$
     << "TIME_24H_MS",
        << "^", "\\", "d", "{", "2", "}", ":", "\\", "d", "{", "2", "}", ":", "\\", "d", "{",
           "2", "}", "\\", ".", "\\", "d", "{", "1", ",", "3", "}", "$" >> >>,
     \* line 47: ^\d{1,2}:\d{2}:\d{2} [AP]M$
     << "TIME_12H",
        << "^", "\\", "d", "{", "1", ",", "2", "}", ":", "\\", "d", "{", "2", "}", ":", "\\",
           "d", "{", "2", "}", " ", "[", "A", "P", "]", "M", "$" >> >>,
     \* line 48: ^\d{1,2}:\d{2} [AP]M$
     << "TIME_12H_SHORT",
        << "^", "\\", "d", "{", "1", ",", "2", "}", ":", "\\", "d", "{", "2", "}", " ", "[", "A",
           "P", "]", "M", "$" >> >>,
     \* line 49: ^\d{6}\d{1,3}$
     << "TIME_CONTINUOUS_MS",
        << "^", "\\", "d", "{", "6", "}", "\\", "d", "{", "1", ",", "3", "}", "$" >> >>,
     \* line 50: ^\d{6}$
     << "TIME_MILITARY",
        << "^", "\\", "d", "{", "6", "}", "$" >> >>,
     \* line 53: ^\d{4}-\d{2}-\d{2} \d{2}:\d{2}:\d{2}$
     << "SQL_TIMESTAMP",
        << "^", "\\", "d", "{", "4", "}", "-", "\\", "d", "{", "2", "}", "-", "\\", "d", "{",
           "2", "}", " ", "\\", "d", "{", "2", "}", ":", "\\", "d", "{", "2", "}", ":", "\\",
           "d", "{", "2", "}", "$" >> >>,
     \* line 54: ^\d{4}-\d{2}-\d{2} \d{2}:\d{2}:\d{2}\.\d{1,6}$
     << "SQL_TIMESTAMP_MS",
        << "^", "\\", "d", "{", "4", "}", "-", "\\", "d", "{", "2", "}", "-", "\\", "d", "{",
           "2", "}", " ", "\\", "d", "{", "2", "}", ":", "\\", "d", "{", "2", "}", ":", "\\",
           "d", "{", "2", "}", "\\", ".", "\\", "d", "{", "1", ",", "6", "}", "$" >> >>,
     \* line 55: ^\d{1,2}-[A-Z]{3}-\d{2} \d{1,2}\.\d{2}\.\d{2}\.\d{1,4} [AP]M$
     << "ORACLE_TIMESTAMP",
        << "^", "\\", "d", "{", "1", ",", "2", "}", "-", "[", "A", "-", "Z", "]", "{", "3", "}",
           "-", "\\", "d", "{", "2", "}", " ", "\\", "d", "{", "1", ",", "2", "}", "\\", ".",
           "\\", "d", "{", "2", "}", "\\", ".", "\\", "d", "{", "2", "}", "\\", ".", "\\", "d",
           "{", "1", ",", "4", "}", " ", "[", "A", "P", "]", "M", "$" >> >>,
     \* line 56: ^\d{4}-\d{2}-\d{2}-\d{2}\.\d{2}\.\d{2}\.\d{1,6}$
     << "DB2_TIMESTAMP",
        << "^", "\\", "d", "{", "4", "}", "-", "\\", "d", "{", "2", "}", "-", "\\", "d", "{",
           "2", "}", "-", "\\", "d", "{", "2", "}", "\\", ".", "\\", "d", "{", "2", "}", "\\",
           ".", "\\", "d", "{", "2", "}", "\\", ".", "\\", "d", "{", "1", ",", "6", "}", "$" >> >>,
     \* line 57: ^\d{8} \d{2}:\d{2}:\d{2}$
     << "MSSQL_TIMESTAMP",
        << "^", "\\", "d", "{", "8", "}", " ", "\\", "d", "{", "2", "}", ":", "\\", "d", "{",
           "2", "}", ":", "\\", "d", "{", "2", "}", "$" >> >>,
     \* line 60: ^\d{14}\d{1,3}$
     << "COMPACT_TIMESTAMP",
        << "^", "\\", "d", "{", "1", "4", "}", "\\", "d", "{", "1", ",", "3", "}", "$" >> >>,
     \* line 61: ^\d{4}-\d{2}-\d{2} \d{2}:\d{2}:\d{2}\.\d{1,6}[+-]\d{2}:\d{2}$
     << "POSTGRES_TIMESTAMP_TZ",
        << "^", "\\", "d", "{", "4", "}", "-", "\\", "d", "{", "2", "}", "-", "\\", "d", "{",
           "2", "}", " ", "\\", "d", "{", "2", "}", ":", "\\", "d", "{", "2", "}", ":", "\\",
           "d", "{", "2", "}", "\\", ".", "\\", "d", "{", "1", ",", "6", "}", "[", "+", "-", "]",
           "\\", "d", "{", "2", "}", ":", "\\", "d", "{", "2", "}", "$" >> >>,
     \* line 62: ^@\d{10}$
     << "TAGGED_UNIX",
        << "^", "@", "\\", "d", "{", "1", "0", "}", "$" >> >>,
     \* line 63: ^\d{2}-\d{2}-\d{2}$
     << "SHORT_DATE",
        << "^", "\\", "d", "{", "2", "}", "-", "\\", "d", "{", "2", "}", "-", "\\", "d", "{",
           "2", "}", "$" >> >>,
     \* line 64: ^\d{1,2}[A-Z]{3}\d{4}:\d{2}:\d{2}:\d{2}$
     << "SAS_DATETIME",
        << "^", "\\", "d", "{", "1", ",", "2", "}", "[", "A", "-", "Z", "]", "{", "3", "}", "\\",
           "d", "{", "4", "}", ":", "\\", "d", "{", "2", "}", ":", "\\", "d", "{", "2", "}", ":",
           "\\", "d", "{", "2", "}", "$" >> >>,
     \* line 65: ^\d{1,2}/\d{1,2}/\d{4} \d{1,2}:\d{2}:\d{2} [AP]M$
     << "DOTNET_DATETIME",
        << "^", "\\", "d", "{", "1", ",", "2", "}", "/", "\\", "d", "{", "1", ",", "2", "}", "/",
           "\\", "d", "{", "4", "}", " ", "\\", "d", "{", "1", ",", "2", "}", ":", "\\", "d",
           "{", "2", "}", ":", "\\", "d", "{", "2", "}", " ", "[", "A", "P", "]", "M", "$" >> >>,
     \* line 68: ^\d{4}-\d{2}-\d{2}-\d{2}-\d{2}-\d{2}$
     << "HYPHEN_SEPARATED",
        << "^", "\\", "d", "{", "4", "}", "-", "\\", "d", "{", "2", "}", "-", "\\", "d", "{",
           "2", "}", "-", "\\", "d", "{", "2", "}", "-", "\\", "d", "{", "2", "}", "-", "\\",
           "d", "{", "2", "}", "$" >> >>,
     \* line 69: ^\d{14}\d{1,3}$
     << "CONTINUOUS_DATETIME",
        << "^", "\\", "d", "{", "1", "4", "}", "\\", "d", "{", "1", ",", "3", "}", "$" >> >>,
     \* line 70: ^\d{2}\.\d{3}/\d{2}:\d{2}:\d{2}$
     << "NASA_MISSION",
        << "^", "\\", "d", "{", "2", "}", "\\", ".", "\\", "d", "{", "3", "}", "/", "\\", "d",
           "{", "2", "}", ":", "\\", "d", "{", "2", "}", ":", "\\", "d", "{", "2", "}", "$" >> >>,
     \* line 71: ^\d{4}:\d{2}:\d{2} \d{2}:\d{2}:\d{2}$
     << "EXIF_DATETIME",
        << "^", "\\", "d", "{", "4", "}", ":", "\\", "d", "{", "2", "}", ":", "\\", "d", "{",
           "2", "}", " ", "\\", "d", "{", "2", "}", ":", "\\", "d", "{", "2", "}", ":", "\\",
           "d", "{", "2", "}", "$" >> >>,
     \* line 72: ^24\d{4}\.\d{1,5}$
     << "JULIAN_DATE",
        << "^", "2", "4", "\\", "d", "{", "4", "}", "\\", ".", "\\", "d", "{", "1", ",", "5",
           "}", "$" >> >>,
     \* line 73: ^\d{5}\.\d{1,5}$
     << "MODIFIED_JULIAN_DATE",
        << "^", "\\", "d", "{", "5", "}", "\\", ".", "\\", "d", "{", "1", ",", "5", "}", "$" >> >>,
     \* line 74: ^\d{2}\d{3}$
     << "ORDINAL_DATE_SHORT",
        << "^", "\\", "d", "{", "2", "}", "\\", "d", "{", "3", "}", "$" >> >>,
     \* line 75: ^[0-9]\d{16}$
     << "IBM_MAINFRAME",
        << "^", "[", "0", "-", "9", "]", "\\", "d", "{", "1", "6", "}", "$" >> >>,
     \* line 78: ^\d{2}\d{4}Z [A-Z]{3} \d{2}$
     << "AVIATION_METAR",
        << "^", "\\", "d", "{", "2", "}", "\\", "d", "{", "4", "}", "Z", " ", "[", "A", "-", "Z",
           "]", "{", "3", "}", " ", "\\", "d", "{", "2", "}", "$" >> >>,
     \* line 79: ^\d{1,3}:\d{2}:\d{2}:\d{2}:\d{2}$
     << "BROADCAST_TIMECODE",
        << "^", "\\", "d", "{", "1", ",", "3", "}", ":", "\\", "d", "{", "2", "}", ":", "\\",
           "d", "{", "2", "}", ":", "\\", "d", "{", "2", "}", ":", "\\", "d", "{", "2", "}", "$" >> >>,
     \* line 80: ^\d{2}:\d{2}:\d{2}:\d{2}$
     << "SMPTE_TIMECODE",
        << "^", "\\", "d", "{", "2", "}", ":", "\\", "d", "{", "2", "}", ":", "\\", "d", "{",
           "2", "}", ":", "\\", "d", "{", "2", "}", "$" >> >>,
     \* line 81: ^\d{4}-W\d{2}$
     << "ISO_WEEK",
        << "^", "\\", "d", "{", "4", "}", "-", "W", "\\", "d", "{", "2", "}", "$" >> >>,
     \* line 82: ^W\d{2}-\d{4}$
     << "ALT_ISO_WEEK",
        << "^", "W", "\\", "d", "{", "2", "}", "-", "\\", "d", "{", "4", "}", "$" >> >>,
     \* line 83: ^\d{2}\d{3}$
     << "JULIAN_SHORT",
        << "^", "\\", "d", "{", "2", "}", "\\", "d", "{", "3", "}", "$" >> >>,
     \* line 84: ^\d{4}UTC[A-Z][a-z]{2}\d{1,2}$
     << "AVIATION_MIXED",
        << "^", "\\", "d", "{", "4", "}", "U", "T", "C", "[", "A", "-", "Z", "]", "[", "a", "-",
           "z", "]", "{", "2", "}", "\\", "d", "{", "1", ",", "2", "}", "$" >> >>,
     \* line 87: ^.*Z$
     << "ZULU_INDICATOR",
        << "^", ".", "*", "Z", "$" >> >>,
     \* line 88: ^.*[+-]\d{2}:\d{2}$
     << "ISO_TZ_OFFSET",
        << "^", ".", "*", "[", "+", "-", "]", "\\", "d", "{", "2", "}", ":", "\\", "d", "{", "2",
           "}", "$" >> >>,
     \* line 89: ^.*[+-]\d{4}$
     << "COMPACT_TZ_OFFSET",
        << "^", ".", "*", "[", "+", "-", "]", "\\", "d", "{", "4", "}", "$" >> >>,
     \* line 90: ^.* GMT[+-]\d{2}:\d{2}$
     << "GMT_OFFSET",
        << "^", ".", "*", " ", "G", "M", "T", "[", "+", "-", "]", "\\", "d", "{", "2", "}", ":",
           "\\", "d", "{", "2", "}", "$" >> >>,
     \* line 91: ^.* [A-Z]{3,5}$
     << "NAMED_TIMEZONE",
        << "^", ".", "*", " ", "[", "A", "-", "Z", "]", "{", "3", ",", "5", "}", "$" >> >>,
     \* line 92: ^.* [A-Za-z]+/[A-Za-z_]+$
     << "IANA_TIMEZONE",
        << "^", ".", "*", " ", "[", "A", "-", "Z", "a", "-", "z", "]", "+", "/", "[", "A", "-",
           "Z", "a", "-", "z", "_", "]", "+", "$" >> >>,
     \* line 93: ^.* UTC[+-]\d{1,2}$
     << "SIMPLE_UTC_OFFSET",
        << "^", ".", "*", " ", "U", "T", "C", "[", "+", "-", "]", "\\", "d", "{", "1", ",", "2",
           "}", "$" >> >>,
     \* line 96: ^\d{4}-\d{2}-\d{2}T\d{2}:\d{2}:\d{2}\.\d{1,3}[+-]\d{2}:\d{2}\[[A-Za-z/]+\]$
     << "JAVA8_DATETIME",
        << "^", "\\", "d", "{", "4", "}", "-", "\\", "d", "{", "2", "}", "-", "\\", "d", "{",
           "2", "}", "T", "\\", "d", "{", "2", "}", ":", "\\", "d", "{", "2", "}", ":", "\\",
           "d", "{", "2", "}", "\\", ".", "\\", "d", "{", "1", ",", "3", "}", "[", "+", "-", "]",
           "\\", "d", "{", "2", "}", ":", "\\", "d", "{", "2", "}", "\\", "[", "[", "A", "-",
           "Z", "a", "-", "z", "/", "]", "+", "\\", "]", "$" >> >>,
     \* line 97: ^[+-]\d{10}$
     << "SIGNED_UNIX",
        << "^", "[", "+", "-", "]", "\\", "d", "{", "1", "0", "}", "$" >> >>,
     \* line 98: ^@\d{13}/\d{4}-\d{2}-\d{2}$
     << "HYBRID_TIMESTAMP",
        << "^", "@", "\\", "d", "{", "1", "3", "}", "/", "\\", "d", "{", "4", "}", "-", "\\",
           "d", "{", "2", "}", "-", "\\", "d", "{", "2", "}", "$" >> >>,
     \* line 99: ^\d{4}-\d{2}-\d{2}T\d{2}:\d{2}:\d{2}[+-]\d{2}:\d{2}$
     << "W3C_DTF",
        << "^", "\\", "d", "{", "4", "}", "-", "\\", "d", "{", "2", "}", "-", "\\", "d", "{",
           "2", "}", "T", "\\", "d", "{", "2", "}", ":", "\\", "d", "{", "2", "}", ":", "\\",
           "d", "{", "2", "}", "[", "+", "-", "]", "\\", "d", "{", "2", "}", ":", "\\", "d", "{",
           "2", "}", "$" >> >>,
     \* line 100: ^<\d{10}>$
     << "XML_TIMESTAMP",
        << "^", "<", "\\", "d", "{", "1", "0", "}", ">", "$" >> >>,
     \* line 101: ^\d{4}\.\d{1,2}\.\d{1}$
     << "ISO_WEEK_WEEKDAY",
        << "^", "\\", "d", "{", "4", "}", "\\", ".", "\\", "d", "{", "1", ",", "2", "}", "\\",
           ".", "\\", "d", "{", "1", "}", "$" >> >>,
     \* line 102: ^\d{10,19}$
     << "CUSTOM_EPOCH",
        << "^", "\\", "d", "{", "1", "0", ",", "1", "9", "}", "$" >> >>,
     \* line 103: ^\d{6}-\d{6}$
     << "COMPACT_DATETIME",
        << "^", "\\", "d", "{", "6", "}", "-", "\\", "d", "{", "6", "}", "$" >> >>,
     \* line 106: ^[^\x00-\x7F]+$
     << "CHINESE_CALENDAR",
        << "^", "[", "^", "\\", "x", "0", "0", "-", "\\", "x", "7", "F", "]", "+", "$" >> >>,
     \* line 107: ^1[3-5]\d{2}-\d{2}-\d{2}$
     << "ISLAMIC_CALENDAR",
        << "^", "1", "[", "3", "-", "5", "]", "\\", "d", "{", "2", "}", "-", "\\", "d", "{", "2",
           "}", "-", "\\", "d", "{", "2", "}", "$" >> >>,
     \* line 108: ^5[7-8]\d{2}-\d{2}-\d{2}$
     << "HEBREW_CALENDAR",
        << "^", "5", "[", "7", "-", "8", "]", "\\", "d", "{", "2", "}", "-", "\\", "d", "{", "2",
           "}", "-", "\\", "d", "{", "2", "}", "$" >> >>,
     \* line 109: ^\d{4} [A-Z][a-z]+ \d{1,2}$
     << "INDIAN_CALENDAR",
        << "^", "\\", "d", "{", "4", "}", " ", "[", "A", "-", "Z", "]", "[", "a", "-", "z", "]",
           "+", " ", "\\", "d", "{", "1", ",", "2", "}", "$" >> >>,
     \* line 110: ^25\d{2}-\d{2}-\d{2}$
     << "THAI_CALENDAR",
        << "^", "2", "5", "\\", "d", "{", "2", "}", "-", "\\", "d", "{", "2", "}", "-", "\\",
           "d", "{", "2", "}", "$" >> >>,
     \* line 111: ^[^\x00-\x7F]+$
     << "JAPANESE_CALENDAR",
        << "^", "[", "^", "\\", "x", "0", "0", "-", "\\", "x", "7", "F", "]", "+", "$" >> >>
  >>

\* HashMap::new()
HashMapNew == [x \in {} |-> <<>>]

\* map.insert(k, v): the map with k bound to v, a binding of k replaced.
insert(m, k, v) == [x \in DOMAIN m \cup {k} |-> IF x = k THEN v ELSE m[x]]

\* map.len()
len(m) == Cardinality(DOMAIN m)

(***************************************************************************)
(* Bounds                                                                  *)
(***************************************************************************)

\* Iteration orders of the built HashMap that are explored.
NumOrders == 2
\* Threads of the concurrent specification.
NumThreads == 2
\* Length of the longest input (a run of digits).
MaxLen == 40

(***************************************************************************)
(* The source text of the builder.  Variant 0 is the lazy_static! block as *)
(* written; the variants after it replace one pattern by a text Regex::new *)
(* rejects, the case the if-let of the classifier provides for; the last   *)
(* is the block of the other revision of the catalog.                      *)
(***************************************************************************)

\* ^(\d{4}$ : a group that is never closed.
UnclosedGroup == << "^", "(", "\\", "d", "{", "4", "}", "$" >>
\* ^\d{2}(?=:)\d{2}$ : look-around, which the regex crate does not support.
LookAhead ==
  << "^", "\\", "d", "{", "2", "}", "(", "?", "=", ":", ")", "\\", "d", "{", "2", "}", "$" >>
\* ^(\d)\1{9}$ : a backreference, which the regex crate does not support.
BackReference == << "^", "(", "\\", "d", ")", "\\", "1", "{", "9", "}", "$" >>
\* ^[9-1]\d{9}$ : a class range whose ends are reversed.
ReversedRange == << "^", "[", "9", "-", "1", "]", "\\", "d", "{", "9", "}", "$" >>

\* The defects: the insert statement that is replaced, and the text put there.
Defects ==
  << <<1, UnclosedGroup>>, <<27, LookAhead>>, <<11, BackReference>>, <<79, ReversedRange>> >>

\* The variant built from the other revision of the catalog.
Revision == Len(Defects) + 1

Variants == 0..Revision

Source(v) ==
  IF v = 0 THEN Inserts
  ELSE IF v = Revision THEN LooseInserts
  ELSE [k \in 1..Len(Inserts) |->
          IF k = Defects[v][1] THEN <<Inserts[k][1], Defects[v][2]>> ELSE Inserts[k]]

\* The string literals of a source: a &'static str is a reference to one of
\* them, here the number of the insert statement the literal stands in.
Literal(v, ref) == Source(v)[ref][2]

\* The map after the first n insert statements of a source: every key
\* inserted, bound by its last insert.
Built(src, n) ==
  [name \in {src[k][1] : k \in 1..n} |-> Max({k \in 1..n : src[k][1] = name})]

\* The keys of a source in the order of their first insert.
Keys(src, n) ==
  LET first == Sorted({k \in 1..n : \A j \in 1..(k - 1) : src[j][1] # src[k][1]})
  IN [i \in 1..Len(first) |-> src[first[i]][1]]

\* The keys of the map each source builds, in the order of their first insert.
KeysBuilt == [v \in Variants |-> Keys(Source(v), Len(Source(v)))]

\* An iteration order of a HashMap is some permutation of its keys, fixed
\* once the map is built: the k-th explored order rotates the keys by 17 k
\* places and reverses them when k is odd.
IterOrder(keys, k) ==
  LET n == Len(keys)
      rot == [i \in 1..n |-> keys[((i - 1 + 17 * k) % n) + 1]]
  IN IF k % 2 = 1 THEN [i \in 1..n |-> rot[n + 1 - i]] ELSE rot

(***************************************************************************)
(* identify_timestamp_format                                               *)
(***************************************************************************)

\* Regex::new on every string literal of every source.  The compilation is a
\* function of the pattern text alone, so the loop's Regex::new(pattern)
\* is read from this table.
Compiled == [v \in Variants |-> [ref \in 1..Len(Inserts) |-> RegexNew(Literal(v, ref))]]

\* The body of the for loop for one entry of the process built from source v:
\* whether its name is pushed.
Pushed(v, pattern, s) ==
  LET regex == Compiled[v][pattern] IN regex.ok /\ is_match(regex.re, s)

\* A loop that breaks at the first entry that matches.
IterateFirst(v, formats, order, s) ==
  LET hits == SelectSeq(order, LAMBDA name : Pushed(v, formats[name], s))
  IN IF hits = <<>> THEN hits ELSE << hits[1] >>

\* The for loop over TIMESTAMP_FORMATS.iter(): the names pushed, in the order
\* of the iteration.  formats maps a name to its pattern, order is the
\* iteration order of the map.
Iterate(v, formats, order, s) ==
  SelectSeq(order, LAMBDA name : Pushed(v, formats[name], s))

\* A classifier that unwraps Regex::new: it panics at an entry whose pattern
\* does not compile.
identify_unwrap(v, timestamp, formats, order) ==
  IF \E name \in DOMAIN formats : ~Compiled[v][formats[name]].ok
    THEN [panicked |-> TRUE, matches |-> <<>>]
    ELSE [panicked |-> FALSE, matches |-> Iterate(v, formats, order, chars(timestamp))]

\* A classifier that looks at the first character of its argument before the
\* loop, and panics when there is none.
identify_by_first_char(v, timestamp, formats, order) ==
  IF timestamp = <<>>
    THEN [panicked |-> TRUE, matches |-> <<>>]
    ELSE [panicked |-> FALSE, matches |-> Iterate(v, formats, order, chars(timestamp))]

\* The call's outcome: the returned Vec, or a panic.
identify_timestamp_format(v, timestamp, formats, order) ==
  [panicked |-> FALSE, matches |-> Iterate(v, formats, order, chars(timestamp))]

(***************************************************************************)
(* Inputs.  Every catalog entry has a template: a text it matches, cut     *)
(* into its fields.  The inputs are the templates' texts, the texts with   *)
(* one field out of its range, with every field at its least and at its    *)
(* greatest value, with a character added in front or behind, the          *)
(* slash-separated date-times, and texts no entry is written for.          *)
(***************************************************************************)

Digit == << "0", "1", "2", "3", "4", "5", "6", "7", "8", "9" >>

RECURSIVE Digits(_, _)
\* The decimal digits of n, w of them.
Digits(n, w) == IF w = 0 THEN <<>> ELSE Append(Digits(n \div 10, w - 1), Digit[(n % 10) + 1])

Fld(kind, n, w) == <<kind, Digits(n, w)>>
Txt(text) == <<"text", text>>

Template ==
  [
    ISO_DATE |->
      << Fld("year", 2025, 4), Txt(<<"-">>), Fld("month", 5, 2), Txt(<<"-">>), Fld("day", 19, 2) >>,
    ISO_DATETIME |->
      << Fld("year", 2025, 4), Txt(<<"-">>), Fld("month", 5, 2), Txt(<<"-">>), Fld("day", 19, 2),
         Txt(<<"T">>), Fld("hour", 14, 2), Txt(<<":">>), Fld("minute", 30, 2), Txt(<<":">>),
         Fld("second", 15, 2) >>,
    ISO_DATETIME_UTC |->
      << Fld("year", 2025, 4), Txt(<<"-">>), Fld("month", 5, 2), Txt(<<"-">>), Fld("day", 19, 2),
         Txt(<<"T">>), Fld("hour", 14, 2), Txt(<<":">>), Fld("minute", 30, 2), Txt(<<":">>),
         Fld("second", 15, 2), Txt(<<"U", "T", "C">>) >>,
    ISO_DATETIME_TZ |->
      << Fld("year", 2025, 4), Txt(<<"-">>), Fld("month", 5, 2), Txt(<<"-">>), Fld("day", 19, 2),
         Txt(<<"T">>), Fld("hour", 14, 2), Txt(<<":">>), Fld("minute", 30, 2), Txt(<<":">>),
         Fld("second", 15, 2), Txt(<<"+">>), Fld("hour", 2, 2), Txt(<<":">>), Fld("minute", 0, 2) >>,
    ISO_DATETIME_MS |->
      << Fld("year", 2025, 4), Txt(<<"-">>), Fld("month", 5, 2), Txt(<<"-">>), Fld("day", 19, 2),
         Txt(<<"T">>), Fld("hour", 14, 2), Txt(<<":">>), Fld("minute", 30, 2), Txt(<<":">>),
         Fld("second", 15, 2), Txt(<<".", "1", "2", "3">>) >>,
    ISO_DATETIME_MS_UTC |->
      << Fld("year", 2025, 4), Txt(<<"-">>), Fld("month", 5, 2), Txt(<<"-">>), Fld("day", 19, 2),
         Txt(<<"T">>), Fld("hour", 14, 2), Txt(<<":">>), Fld("minute", 30, 2), Txt(<<":">>),
         Fld("second", 15, 2), Txt(<<".", "1", "2", "3", "Z">>) >>,
    ISO_DATE_BASIC |->
      << Fld("year", 2025, 4), Fld("month", 5, 2), Fld("day", 19, 2) >>,
    ISO_DATETIME_BASIC |->
      << Fld("year", 2025, 4), Fld("month", 5, 2), Fld("day", 19, 2), Txt(<<"T">>),
         Fld("hour", 14, 2), Fld("minute", 30, 2), Fld("second", 15, 2) >>,
    ISO_ORDINAL_DATE |->
      << Fld("year", 2025, 4), Txt(<<"-", "1", "3", "9">>) >>,
    ISO_WEEK_DATE |->
      << Fld("year", 2025, 4), Txt(<<"-", "W", "2", "1", "-", "1">>) >>,
    UNIX_SECONDS |->
      << Txt(<<"1", "7", "1", "6", "1", "5", "9", "6", "0", "0">>) >>,
    UNIX_MILLISECONDS |->
      << Txt(<<"1", "7", "1", "6", "1", "5", "9", "6", "0", "0", "1", "2", "3">>) >>,
    UNIX_MICROSECONDS |->
      << Txt(<<"1", "7", "1", "6", "1", "5", "9", "6", "0", "0", "1", "2", "3", "4", "5", "6">>) >>,
    UNIX_NANOSECONDS |->
      << Txt(<<"1", "7", "1", "6", "1", "5", "9", "6", "0", "0", "1", "2", "3", "4", "5", "6", "7", "8", "9">>) >>,
    RFC_822_1123 |->
      << Txt(<<"M", "o", "n", ",", " ">>), Fld("day", 19, 2), Txt(<<" ", "M", "a", "y", " ">>),
         Fld("year", 2025, 4), Txt(<<" ">>), Fld("hour", 14, 2), Txt(<<":">>), Fld("minute", 30, 2),
         Txt(<<":">>), Fld("second", 15, 2), Txt(<<" ", "G", "M", "T">>) >>,
    RFC_850_1036 |->
      << Txt(<<"M", "o", "n", "d", "a", "y", ",", " ">>), Fld("day", 19, 2),
         Txt(<<"-", "M", "a", "y", "-">>), Fld("year", 25, 2), Txt(<<" ">>), Fld("hour", 14, 2),
         Txt(<<":">>), Fld("minute", 30, 2), Txt(<<":">>), Fld("second", 15, 2),
         Txt(<<" ", "G", "M", "T">>) >>,
    ANSI_C_ASCTIME |->
      << Txt(<<"M", "o", "n", " ", "M", "a", "y", " ">>), Fld("day", 5, 1), Txt(<<" ">>),
         Fld("hour", 14, 2), Txt(<<":">>), Fld("minute", 30, 2), Txt(<<":">>), Fld("second", 15, 2),
         Txt(<<" ">>), Fld("year", 2025, 4) >>,
    RFC_3339 |->
      << Fld("year", 2025, 4), Txt(<<"-">>), Fld("month", 5, 2), Txt(<<"-">>), Fld("day", 19, 2),
         Txt(<<"T">>), Fld("hour", 14, 2), Txt(<<":">>), Fld("minute", 30, 2), Txt(<<":">>),
         Fld("second", 15, 2), Txt(<<"Z">>) >>,
    US_DATETIME |->
      << Fld("month", 5, 2), Txt(<<"/">>), Fld("day", 19, 2), Txt(<<"/">>), Fld("year", 2025, 4),
         Txt(<<" ">>), Fld("hour", 14, 2), Txt(<<":">>), Fld("minute", 30, 2), Txt(<<":">>),
         Fld("second", 15, 2) >>,
    EU_DATETIME |->
      << Fld("day", 19, 2), Txt(<<"/">>), Fld("month", 5, 2), Txt(<<"/">>), Fld("year", 2025, 4),
         Txt(<<" ">>), Fld("hour", 14, 2), Txt(<<":">>), Fld("minute", 30, 2), Txt(<<":">>),
         Fld("second", 15, 2) >>,
    ASIAN_DATETIME |->
      << Fld("year", 2025, 4), Txt(<<"/">>), Fld("month", 5, 2), Txt(<<"/">>), Fld("day", 19, 2),
         Txt(<<" ">>), Fld("hour", 14, 2), Txt(<<":">>), Fld("minute", 30, 2), Txt(<<":">>),
         Fld("second", 15, 2) >>,
    GERMAN_DATETIME |->
      << Fld("day", 19, 2), Txt(<<".">>), Fld("month", 5, 2), Txt(<<".">>), Fld("year", 2025, 4),
         Txt(<<" ">>), Fld("hour", 14, 2), Txt(<<":">>), Fld("minute", 30, 2), Txt(<<":">>),
         Fld("second", 15, 2) >>,
    UK_DATETIME |->
      << Fld("day", 19, 2), Txt(<<"-", "M", "a", "y", "-">>), Fld("year", 2025, 4), Txt(<<" ">>),
         Fld("hour", 14, 2), Txt(<<":">>), Fld("minute", 30, 2), Txt(<<":">>), Fld("second", 15, 2) >>,
    SHORT_EU_DATETIME |->
      << Fld("day", 19, 2), Txt(<<"-">>), Fld("month", 5, 2), Txt(<<"-">>), Fld("year", 25, 2),
         Txt(<<" ">>), Fld("hour", 14, 2), Txt(<<":">>), Fld("minute", 30, 2), Txt(<<":">>),
         Fld("second", 15, 2) >>,
    SHORT_US_DATETIME |->
      << Fld("month", 5, 2), Txt(<<"-">>), Fld("day", 19, 2), Txt(<<"-">>), Fld("year", 25, 2),
         Txt(<<" ">>), Fld("hour", 14, 2), Txt(<<":">>), Fld("minute", 30, 2), Txt(<<":">>),
         Fld("second", 15, 2) >>,
    TIME_LEADING_FORMAT |->
      << Fld("hour", 14, 2), Txt(<<":">>), Fld("minute", 30, 2), Txt(<<":">>), Fld("second", 15, 2),
         Txt(<<" ">>), Fld("day", 19, 2), Txt(<<"/">>), Fld("month", 5, 2), Txt(<<"/">>),
         Fld("year", 2025, 4) >>,
    TIME_24H |->
      << Fld("hour", 14, 2), Txt(<<":">>), Fld("minute", 30, 2), Txt(<<":">>), Fld("second", 15, 2) >>,
    TIME_24H_MS |->
      << Fld("hour", 14, 2), Txt(<<":">>), Fld("minute", 30, 2), Txt(<<":">>), Fld("second", 15, 2),
         Txt(<<".", "1", "2", "3">>) >>,
    TIME_12H |->
      << Fld("hour", 2, 2), Txt(<<":">>), Fld("minute", 30, 2), Txt(<<":">>), Fld("second", 15, 2),
         Txt(<<" ", "P", "M">>) >>,
    TIME_12H_SHORT |->
      << Fld("hour", 2, 2), Txt(<<":">>), Fld("minute", 30, 2), Txt(<<" ", "P", "M">>) >>,
    TIME_CONTINUOUS_MS |->
      << Fld("hour", 14, 2), Fld("minute", 30, 2), Fld("second", 15, 2), Txt(<<"1", "2", "3">>) >>,
    TIME_MILITARY |->
      << Fld("hour", 14, 2), Fld("minute", 30, 2), Fld("second", 15, 2) >>,
    SQL_TIMESTAMP |->
      << Fld("year", 2025, 4), Txt(<<"-">>), Fld("month", 5, 2), Txt(<<"-">>), Fld("day", 19, 2),
         Txt(<<" ">>), Fld("hour", 14, 2), Txt(<<":">>), Fld("minute", 30, 2), Txt(<<":">>),
         Fld("second", 15, 2) >>,
    SQL_TIMESTAMP_MS |->
      << Fld("year", 2025, 4), Txt(<<"-">>), Fld("month", 5, 2), Txt(<<"-">>), Fld("day", 19, 2),
         Txt(<<" ">>), Fld("hour", 14, 2), Txt(<<":">>), Fld("minute", 30, 2), Txt(<<":">>),
         Fld("second", 15, 2), Txt(<<".", "1", "2", "3", "4", "5", "6">>) >>,
    ORACLE_TIMESTAMP |->
      << Fld("day", 19, 2), Txt(<<"-", "M", "A", "Y", "-">>), Fld("year", 25, 2), Txt(<<" ">>),
         Fld("hour", 2, 2), Txt(<<".">>), Fld("minute", 30, 2), Txt(<<".">>), Fld("second", 15, 2),
         Txt(<<".", "1", "2", "3", "4", " ", "P", "M">>) >>,
    DB2_TIMESTAMP |->
      << Fld("year", 2025, 4), Txt(<<"-">>), Fld("month", 5, 2), Txt(<<"-">>), Fld("day", 19, 2),
         Txt(<<"-">>), Fld("hour", 14, 2), Txt(<<".">>), Fld("minute", 30, 2), Txt(<<".">>),
         Fld("second", 15, 2), Txt(<<".", "1", "2", "3", "4", "5", "6">>) >>,
    MSSQL_TIMESTAMP |->
      << Fld("year", 2025, 4), Fld("month", 5, 2), Fld("day", 19, 2), Txt(<<" ">>),
         Fld("hour", 14, 2), Txt(<<":">>), Fld("minute", 30, 2), Txt(<<":">>), Fld("second", 15, 2) >>,
    COMPACT_TIMESTAMP |->
      << Fld("year", 2025, 4), Fld("month", 5, 2), Fld("day", 19, 2), Fld("hour", 14, 2),
         Fld("minute", 30, 2), Fld("second", 15, 2), Txt(<<"1", "2", "3">>) >>,
    POSTGRES_TIMESTAMP_TZ |->
      << Fld("year", 2025, 4), Txt(<<"-">>), Fld("month", 5, 2), Txt(<<"-">>), Fld("day", 19, 2),
         Txt(<<" ">>), Fld("hour", 14, 2), Txt(<<":">>), Fld("minute", 30, 2), Txt(<<":">>),
         Fld("second", 15, 2), Txt(<<".", "1", "2", "3", "4", "5", "6", "+">>), Fld("hour", 2, 2),
         Txt(<<":">>), Fld("minute", 0, 2) >>,
    TAGGED_UNIX |->
      << Txt(<<"@", "1", "7", "1", "6", "1", "5", "9", "6", "0", "0">>) >>,
    SHORT_DATE |->
      << Fld("year", 25, 2), Txt(<<"-">>), Fld("month", 5, 2), Txt(<<"-">>), Fld("day", 19, 2) >>,
    SAS_DATETIME |->
      << Fld("day", 19, 2), Txt(<<"M", "A", "Y">>), Fld("year", 2025, 4), Txt(<<":">>),
         Fld("hour", 14, 2), Txt(<<":">>), Fld("minute", 30, 2), Txt(<<":">>), Fld("second", 15, 2) >>,
    DOTNET_DATETIME |->
      << Fld("month", 5, 2), Txt(<<"/">>), Fld("day", 19, 2), Txt(<<"/">>), Fld("year", 2025, 4),
         Txt(<<" ">>), Fld("hour", 2, 2), Txt(<<":">>), Fld("minute", 30, 2), Txt(<<":">>),
         Fld("second", 15, 2), Txt(<<" ", "P", "M">>) >>,
    HYPHEN_SEPARATED |->
      << Fld("year", 2025, 4), Txt(<<"-">>), Fld("month", 5, 2), Txt(<<"-">>), Fld("day", 19, 2),
         Txt(<<"-">>), Fld("hour", 14, 2), Txt(<<"-">>), Fld("minute", 30, 2), Txt(<<"-">>),
         Fld("second", 15, 2) >>,
    CONTINUOUS_DATETIME |->
      << Fld("year", 2025, 4), Fld("month", 5, 2), Fld("day", 19, 2), Fld("hour", 14, 2),
         Fld("minute", 30, 2), Fld("second", 15, 2) >>,
    NASA_MISSION |->
      << Fld("year", 25, 2), Txt(<<".", "1", "3", "9", "/">>), Fld("hour", 14, 2), Txt(<<":">>),
         Fld("minute", 30, 2), Txt(<<":">>), Fld("second", 15, 2) >>,
    EXIF_DATETIME |->
      << Fld("year", 2025, 4), Txt(<<":">>), Fld("month", 5, 2), Txt(<<":">>), Fld("day", 19, 2),
         Txt(<<" ">>), Fld("hour", 14, 2), Txt(<<":">>), Fld("minute", 30, 2), Txt(<<":">>),
         Fld("second", 15, 2) >>,
    JULIAN_DATE |->
      << Txt(<<"2", "4", "6", "0", "8", "1", ".", "5">>) >>,
    MODIFIED_JULIAN_DATE |->
      << Txt(<<"6", "0", "8", "1", "4", ".", "5">>) >>,
    ORDINAL_DATE_SHORT |->
      << Fld("year", 25, 2), Txt(<<"1", "3", "9">>) >>,
    IBM_MAINFRAME |->
      << Txt(<<"1", "2", "3", "4", "5", "6", "7", "8", "9", "0", "1", "2", "3", "4", "5", "6", "7">>) >>,
    AVIATION_METAR |->
      << Fld("day", 19, 2), Fld("hour", 14, 2), Fld("minute", 30, 2),
         Txt(<<"Z", " ", "M", "A", "Y", " ">>), Fld("year", 25, 2) >>,
    BROADCAST_TIMECODE |->
      << Txt(<<"1", "3", "9", ":">>), Fld("hour", 14, 2), Txt(<<":">>), Fld("minute", 30, 2),
         Txt(<<":">>), Fld("second", 15, 2), Txt(<<":", "1", "2">>) >>,
    SMPTE_TIMECODE |->
      << Fld("hour", 14, 2), Txt(<<":">>), Fld("minute", 30, 2), Txt(<<":">>), Fld("second", 15, 2),
         Txt(<<":", "1", "2">>) >>,
    ISO_WEEK |->
      << Fld("year", 2025, 4), Txt(<<"-", "W", "2", "1">>) >>,
    ALT_ISO_WEEK |->
      << Txt(<<"W", "2", "1", "-">>), Fld("year", 2025, 4) >>,
    JULIAN_SHORT |->
      << Fld("year", 25, 2), Txt(<<"1", "3", "9">>) >>,
    AVIATION_MIXED |->
      << Fld("hour", 14, 2), Fld("minute", 30, 2), Txt(<<"U", "T", "C", "M", "a", "y">>),
         Fld("day", 19, 2) >>,
    ZULU_INDICATOR |->
      << Fld("year", 2025, 4), Txt(<<"-">>), Fld("month", 5, 2), Txt(<<"-">>), Fld("day", 19, 2),
         Txt(<<"T">>), Fld("hour", 14, 2), Txt(<<":">>), Fld("minute", 30, 2), Txt(<<":">>),
         Fld("second", 15, 2), Txt(<<".", "5", "Z">>) >>,
    ISO_TZ_OFFSET |->
      << Fld("year", 2025, 4), Txt(<<"-">>), Fld("month", 5, 2), Txt(<<"-">>), Fld("day", 19, 2),
         Txt(<<"T">>), Fld("hour", 14, 2), Txt(<<":">>), Fld("minute", 30, 2), Txt(<<":">>),
         Fld("second", 15, 2), Txt(<<".", "5", "+">>), Fld("hour", 2, 2), Txt(<<":">>),
         Fld("minute", 0, 2) >>,
    COMPACT_TZ_OFFSET |->
      << Fld("year", 2025, 4), Txt(<<"-">>), Fld("month", 5, 2), Txt(<<"-">>), Fld("day", 19, 2),
         Txt(<<"T">>), Fld("hour", 14, 2), Txt(<<":">>), Fld("minute", 30, 2), Txt(<<":">>),
         Fld("second", 15, 2), Txt(<<"+">>), Fld("hour", 2, 2), Fld("minute", 0, 2) >>,
    GMT_OFFSET |->
      << Fld("year", 2025, 4), Txt(<<"-">>), Fld("month", 5, 2), Txt(<<"-">>), Fld("day", 19, 2),
         Txt(<<" ">>), Fld("hour", 14, 2), Txt(<<":">>), Fld("minute", 30, 2), Txt(<<":">>),
         Fld("second", 15, 2), Txt(<<" ", "G", "M", "T", "+">>), Fld("hour", 2, 2), Txt(<<":">>),
         Fld("minute", 0, 2) >>,
    NAMED_TIMEZONE |->
      << Fld("year", 2025, 4), Txt(<<"-">>), Fld("month", 5, 2), Txt(<<"-">>), Fld("day", 19, 2),
         Txt(<<" ">>), Fld("hour", 14, 2), Txt(<<":">>), Fld("minute", 30, 2), Txt(<<":">>),
         Fld("second", 15, 2), Txt(<<" ", "C", "E", "S", "T">>) >>,
    IANA_TIMEZONE |->
      << Fld("year", 2025, 4), Txt(<<"-">>), Fld("month", 5, 2), Txt(<<"-">>), Fld("day", 19, 2),
         Txt(<<" ">>), Fld("hour", 14, 2), Txt(<<":">>), Fld("minute", 30, 2), Txt(<<":">>),
         Fld("second", 15, 2),
         Txt(<<" ", "E", "u", "r", "o", "p", "e", "/", "P", "a", "r", "i", "s">>) >>,
    SIMPLE_UTC_OFFSET |->
      << Fld("year", 2025, 4), Txt(<<"-">>), Fld("month", 5, 2), Txt(<<"-">>), Fld("day", 19, 2),
         Txt(<<" ">>), Fld("hour", 14, 2), Txt(<<":">>), Fld("minute", 30, 2), Txt(<<":">>),
         Fld("second", 15, 2), Txt(<<" ", "U", "T", "C", "+">>), Fld("hour", 2, 1) >>,
    JAVA8_DATETIME |->
      << Fld("year", 2025, 4), Txt(<<"-">>), Fld("month", 5, 2), Txt(<<"-">>), Fld("day", 19, 2),
         Txt(<<"T">>), Fld("hour", 14, 2), Txt(<<":">>), Fld("minute", 30, 2), Txt(<<":">>),
         Fld("second", 15, 2), Txt(<<".", "1", "2", "3", "+">>), Fld("hour", 2, 2), Txt(<<":">>),
         Fld("minute", 0, 2),
         Txt(<<"[", "E", "u", "r", "o", "p", "e", "/", "P", "a", "r", "i", "s", "]">>) >>,
    SIGNED_UNIX |->
      << Txt(<<"-", "1", "7", "1", "6", "1", "5", "9", "6", "0", "0">>) >>,
    HYBRID_TIMESTAMP |->
      << Txt(<<"@", "1", "7", "1", "6", "1", "5", "9", "6", "0", "0", "1", "2", "3", "/">>),
         Fld("year", 2025, 4), Txt(<<"-">>), Fld("month", 5, 2), Txt(<<"-">>), Fld("day", 19, 2) >>,
    W3C_DTF |->
      << Fld("year", 2025, 4), Txt(<<"-">>), Fld("month", 5, 2), Txt(<<"-">>), Fld("day", 19, 2),
         Txt(<<"T">>), Fld("hour", 14, 2), Txt(<<":">>), Fld("minute", 30, 2), Txt(<<":">>),
         Fld("second", 15, 2), Txt(<<"-">>), Fld("hour", 5, 2), Txt(<<":">>), Fld("minute", 0, 2) >>,
    XML_TIMESTAMP |->
      << Txt(<<"<", "1", "7", "1", "6", "1", "5", "9", "6", "0", "0", ">">>) >>,
    ISO_WEEK_WEEKDAY |->
      << Fld("year", 2025, 4), Txt(<<".", "2", "1", ".", "1">>) >>,
    CUSTOM_EPOCH |->
      << Txt(<<"1", "7", "1", "6", "1", "5", "9", "6", "0", "0", "1", "2", "3", "4", "5", "6">>) >>,
    COMPACT_DATETIME |->
      << Fld("year", 25, 2), Fld("month", 5, 2), Fld("day", 19, 2), Txt(<<"-">>), Fld("hour", 14, 2),
         Fld("minute", 30, 2), Fld("second", 15, 2) >>,
    CHINESE_CALENDAR |->
      << Txt(<<"U4E8C", "U5341", "U5E74", "U4E8C", "U6708", "U5341", "U65E5">>) >>,
    ISLAMIC_CALENDAR |->
      << Fld("year", 1446, 4), Txt(<<"-">>), Fld("month", 11, 2), Txt(<<"-">>), Fld("day", 21, 2) >>,
    HEBREW_CALENDAR |->
      << Fld("year", 5785, 4), Txt(<<"-">>), Fld("month", 8, 2), Txt(<<"-">>), Fld("day", 21, 2) >>,
    INDIAN_CALENDAR |->
      << Fld("year", 2025, 4), Txt(<<" ", "V", "a", "i", "s", "a", "k", "h", "a", " ">>),
         Fld("day", 29, 2) >>,
    THAI_CALENDAR |->
      << Fld("year", 2568, 4), Txt(<<"-">>), Fld("month", 5, 2), Txt(<<"-">>), Fld("day", 19, 2) >>,
    JAPANESE_CALENDAR |->
      << Txt(<<"U4EE4", "U548C">>), Fld("year", 7, 1), Txt(<<"U5E74">>), Fld("month", 5, 1),
         Txt(<<"U6708">>), Fld("day", 19, 2), Txt(<<"U65E5">>) >> ]

\* The names the builder inserts.
Names == {Inserts[k][1] : k \in 1..Len(Inserts)}

RECURSIVE Flat(_, _)
\* The text of the first n segments of a template.
Flat(segs, n) == IF n = 0 THEN <<>> ELSE Flat(segs, n - 1) \o segs[n][2]

Exemplar(name) == Flat(Template[name], Len(Template[name]))

\* The template with the text of its i-th segment replaced.
WithField(segs, i, text) == [j \in 1..Len(segs) |-> IF j = i THEN <<segs[j][1], text>> ELSE segs[j]]

Ranged == {"month", "day", "hour", "minute", "second"}

\* The range of a field, as numbers.
Range(kind) ==
  IF kind = "month" THEN 1..12
  ELSE IF kind = "day" THEN 1..31
  ELSE IF kind = "hour" THEN 0..23
  ELSE 0..59

\* Texts of a field that are outside its range: numbers just past its ends,
\* and for the day the blank that pads a one-digit day.
OutOfRangeTexts(kind) ==
  IF kind = "month" THEN {Digits(0, 2), Digits(13, 2), Digits(0, 1)}
  ELSE IF kind = "day" THEN {Digits(0, 2), Digits(32, 2), Digits(0, 1), <<" ">>}
  ELSE IF kind = "hour" THEN {Digits(24, 2), Digits(30, 2)}
  ELSE {Digits(60, 2)}

\* The inputs of an entry's template with one ranged field out of its range.
OutOfRange(name) ==
  LET segs == Template[name] IN
  UNION { {Flat(WithField(segs, i, bad), Len(segs)) : bad \in OutOfRangeTexts(segs[i][1])}
          : i \in {j \in 1..Len(segs) : segs[j][1] \in Ranged} }

\* The template with every ranged field at the least (greatest) value of its range.
AtEnd(name, greatest) ==
  LET segs == Template[name]
      val(kind) == IF greatest
                     THEN CHOOSE x \in Range(kind) : \A y \in Range(kind) : y <= x
                     ELSE CHOOSE x \in Range(kind) : \A y \in Range(kind) : y >= x
      ends == [j \in 1..Len(segs) |->
                 IF segs[j][1] \in Ranged THEN <<segs[j][1], Digits(val(segs[j][1]), 2)>>
                 ELSE segs[j]]
  IN Flat(ends, Len(segs))

\* The texts made from a text by one character in front of it or behind it.
Extended(text) == {<<" ">> \o text, text \o <<"U000A">>, text \o <<"0">>}

\* Valid times of day: one in the afternoon, the first, the last.
Afternoon == << "1", "4", ":", "3", "0", ":", "1", "5" >>

Times ==
  { Afternoon,
    << "0", "0", ":", "0", "0", ":", "0", "0" >>,
    << "2", "3", ":", "5", "9", ":", "5", "9" >> }

\* a/b/2025 hh:mm:ss
Slashed(a, b, time) == a \o <<"/">> \o b \o << "/", "2", "0", "2", "5", " " >> \o time

\* A month, with and without its leading zero; a day greater than 12.
MonthTexts == {Digits(m, 1) : m \in 1..9} \cup {Digits(m, 2) : m \in 1..12}
LateDayTexts == {Digits(d, 2) : d \in 13..31}

\* Some of them.
SomeMonthTexts == {Digits(5, 2), Digits(9, 1), Digits(12, 2)}
SomeLateDayTexts == {Digits(13, 2), Digits(19, 2), Digits(31, 2)}

\* A month, then a day greater than 12: every month and day in the
\* afternoon, some of them at every time.
MonthFirst ==
  {Slashed(a, b, Afternoon) : a \in MonthTexts, b \in LateDayTexts}
  \cup {Slashed(a, b, time) : a \in SomeMonthTexts, b \in SomeLateDayTexts, time \in Times}

\* A day greater than 12, then a month.
DayFirst ==
  {Slashed(a, b, Afternoon) : a \in LateDayTexts, b \in MonthTexts}
  \cup {Slashed(a, b, time) : a \in SomeLateDayTexts, b \in SomeMonthTexts, time \in Times}

\* 05/19/2025 14:30:15 and 19/05/2025 14:30:15
SlashedSample ==
  { Slashed(Digits(5, 2), Digits(19, 2), Afternoon),
    Slashed(Digits(19, 2), Digits(5, 2), Afternoon) }

\* Texts no entry is written for: the empty text, control characters, text
\* outside ASCII, digits of another script, a long run of digits.
Unrecognized ==
  { <<>>,
    << "U0007" >>,
    << "U000A" >>,
    << "n", "o", "w" >>,
    << "c", "a", "f", "U00E9" >>,
    << "2", "0", "2", "5", "-", "0", "5", "-", "1", "9", "U0007" >>,
    << "U0663", "U0663", ":", "U0663", "U0663" >>,
    [i \in 1..MaxLen |-> "9"] }

\* Texts with a decimal digit of another script, and a CJK text.
Foreign ==
  { << "2", "0", "2", "5", "-", "0", "5", "-", "2", "U0663" >>,
    << "1", "4", ":", "3", "UFF15", ":", "1", "5" >>,
    << "1", "7", "1", "6", "1", "5", "9", "6", "0", "U0663" >>,
    << "U5341", "U4E8C", "U6708" >> }

Inputs ==
  UNION { {Exemplar(n), AtEnd(n, FALSE), AtEnd(n, TRUE)} \cup OutOfRange(n) \cup Extended(Exemplar(n))
          : n \in Names }
  \cup SlashedSample \cup Unrecognized \cup Foreign


(***************************************************************************)
(* get_category, the test helper that groups the names.  It reads a name's *)
(* characters, so every name is spelled out.                               *)
(***************************************************************************)

Spelling ==
  [ ISO_DATE |-> << "I", "S", "O", "_", "D", "A", "T", "E" >>,
      ISO_DATETIME |-> << "I", "S", "O", "_", "D", "A", "T", "E", "T", "I", "M", "E" >>,
      ISO_DATETIME_UTC |-> << "I", "S", "O", "_", "D", "A", "T", "E", "T", "I", "M", "E", "_",
          "U", "T", "C" >>,
      ISO_DATETIME_TZ |-> << "I", "S", "O", "_", "D", "A", "T", "E", "T", "I", "M", "E", "_",
          "T", "Z" >>,
      ISO_DATETIME_MS |-> << "I", "S", "O", "_", "D", "A", "T", "E", "T", "I", "M", "E", "_",
          "M", "S" >>,
      ISO_DATETIME_MS_UTC |-> << "I", "S", "O", "_", "D", "A", "T", "E", "T", "I", "M", "E", "_",
          "M", "S", "_", "U", "T", "C" >>,
      ISO_DATE_BASIC |-> << "I", "S", "O", "_", "D", "A", "T", "E", "_", "B", "A", "S", "I",
          "C" >>,
      ISO_DATETIME_BASIC |-> << "I", "S", "O", "_", "D", "A", "T", "E", "T", "I", "M", "E", "_",
          "B", "A", "S", "I", "C" >>,
      ISO_ORDINAL_DATE |-> << "I", "S", "O", "_", "O", "R", "D", "I", "N", "A", "L", "_", "D",
          "A", "T", "E" >>,
      ISO_WEEK_DATE |-> << "I", "S", "O", "_", "W", "E", "E", "K", "_", "D", "A", "T", "E" >>,
      UNIX_SECONDS |-> << "U", "N", "I", "X", "_", "S", "E", "C", "O", "N", "D", "S" >>,
      UNIX_MILLISECONDS |-> << "U", "N", "I", "X", "_", "M", "I", "L", "L", "I", "S", "E", "C",
          "O", "N", "D", "S" >>,
      UNIX_MICROSECONDS |-> << "U", "N", "I", "X", "_", "M", "I", "C", "R", "O", "S", "E", "C",
          "O", "N", "D", "S" >>,
      UNIX_NANOSECONDS |-> << "U", "N", "I", "X", "_", "N", "A", "N", "O", "S", "E", "C", "O",
          "N", "D", "S" >>,
      RFC_822_1123 |-> << "R", "F", "C", "_", "8", "2", "2", "_", "1", "1", "2", "3" >>,
      RFC_850_1036 |-> << "R", "F", "C", "_", "8", "5", "0", "_", "1", "0", "3", "6" >>,
      ANSI_C_ASCTIME |-> << "A", "N", "S", "I", "_", "C", "_", "A", "S", "C", "T", "I", "M",
          "E" >>,
      RFC_3339 |-> << "R", "F", "C", "_", "3", "3", "3", "9" >>,
      US_DATETIME |-> << "U", "S", "_", "D", "A", "T", "E", "T", "I", "M", "E" >>,
      EU_DATETIME |-> << "E", "U", "_", "D", "A", "T", "E", "T", "I", "M", "E" >>,
      ASIAN_DATETIME |-> << "A", "S", "I", "A", "N", "_", "D", "A", "T", "E", "T", "I", "M",
          "E" >>,
      GERMAN_DATETIME |-> << "G", "E", "R", "M", "A", "N", "_", "D", "A", "T", "E", "T", "I",
          "M", "E" >>,
      UK_DATETIME |-> << "U", "K", "_", "D", "A", "T", "E", "T", "I", "M", "E" >>,
      SHORT_EU_DATETIME |-> << "S", "H", "O", "R", "T", "_", "E", "U", "_", "D", "A", "T", "E",
          "T", "I", "M", "E" >>,
      SHORT_US_DATETIME |-> << "S", "H", "O", "R", "T", "_", "U", "S", "_", "D", "A", "T", "E",
          "T", "I", "M", "E" >>,
      TIME_LEADING_FORMAT |-> << "T", "I", "M", "E", "_", "L", "E", "A", "D", "I", "N", "G", "_",
          "F", "O", "R", "M", "A", "T" >>,
      TIME_24H |-> << "T", "I", "M", "E", "_", "2", "4", "H" >>,
      TIME_24H_MS |-> << "T", "I", "M", "E", "_", "2", "4", "H", "_", "M", "S" >>,
      TIME_12H |-> << "T", "I", "M", "E", "_", "1", "2", "H" >>,
      TIME_12H_SHORT |-> << "T", "I", "M", "E", "_", "1", "2", "H", "_", "S", "H", "O", "R",
          "T" >>,
      TIME_CONTINUOUS_MS |-> << "T", "I", "M", "E", "_", "C", "O", "N", "T", "I", "N", "U", "O",
          "U", "S", "_", "M", "S" >>,
      TIME_MILITARY |-> << "T", "I", "M", "E", "_", "M", "I", "L", "I", "T", "A", "R", "Y" >>,
      SQL_TIMESTAMP |-> << "S", "Q", "L", "_", "T", "I", "M", "E", "S", "T", "A", "M", "P" >>,
      SQL_TIMESTAMP_MS |-> << "S", "Q", "L", "_", "T", "I", "M", "E", "S", "T", "A", "M", "P",
          "_", "M", "S" >>,
      ORACLE_TIMESTAMP |-> << "O", "R", "A", "C", "L", "E", "_", "T", "I", "M", "E", "S", "T",
          "A", "M", "P" >>,
      DB2_TIMESTAMP |-> << "D", "B", "2", "_", "T", "I", "M", "E", "S", "T", "A", "M", "P" >>,
      MSSQL_TIMESTAMP |-> << "M", "S", "S", "Q", "L", "_", "T", "I", "M", "E", "S", "T", "A",
          "M", "P" >>,
      COMPACT_TIMESTAMP |-> << "C", "O", "M", "P", "A", "C", "T", "_", "T", "I", "M", "E", "S",
          "T", "A", "M", "P" >>,
      POSTGRES_TIMESTAMP_TZ |-> << "P", "O", "S", "T", "G", "R", "E", "S", "_", "T", "I", "M",
          "E", "S", "T", "A", "M", "P", "_", "T", "Z" >>,
      TAGGED_UNIX |-> << "T", "A", "G", "G", "E", "D", "_", "U", "N", "I", "X" >>,
      SHORT_DATE |-> << "S", "H", "O", "R", "T", "_", "D", "A", "T", "E" >>,
      SAS_DATETIME |-> << "S", "A", "S", "_", "D", "A", "T", "E", "T", "I", "M", "E" >>,
      DOTNET_DATETIME |-> << "D", "O", "T", "N", "E", "T", "_", "D", "A", "T", "E", "T", "I",
          "M", "E" >>,
      HYPHEN_SEPARATED |-> << "H", "Y", "P", "H", "E", "N", "_", "S", "E", "P", "A", "R", "A",
          "T", "E", "D" >>,
      CONTINUOUS_DATETIME |-> << "C", "O", "N", "T", "I", "N", "U", "O", "U", "S", "_", "D", "A",
          "T", "E", "T", "I", "M", "E" >>,
      NASA_MISSION |-> << "N", "A", "S", "A", "_", "M", "I", "S", "S", "I", "O", "N" >>,
      EXIF_DATETIME |-> << "E", "X", "I", "F", "_", "D", "A", "T", "E", "T", "I", "M", "E" >>,
      JULIAN_DATE |-> << "J", "U", "L", "I", "A", "N", "_", "D", "A", "T", "E" >>,
      MODIFIED_JULIAN_DATE |-> << "M", "O", "D", "I", "F", "I", "E", "D", "_", "J", "U", "L",
          "I", "A", "N", "_", "D", "A", "T", "E" >>,
      ORDINAL_DATE_SHORT |-> << "O", "R", "D", "I", "N", "A", "L", "_", "D", "A", "T", "E", "_",
          "S", "H", "O", "R", "T" >>,
      IBM_MAINFRAME |-> << "I", "B", "M", "_", "M", "A", "I", "N", "F", "R", "A", "M", "E" >>,
      AVIATION_METAR |-> << "A", "V", "I", "A", "T", "I", "O", "N", "_", "M", "E", "T", "A",
          "R" >>,
      BROADCAST_TIMECODE |-> << "B", "R", "O", "A", "D", "C", "A", "S", "T", "_", "T", "I", "M",
          "E", "C", "O", "D", "E" >>,
      SMPTE_TIMECODE |-> << "S", "M", "P", "T", "E", "_", "T", "I", "M", "E", "C", "O", "D",
          "E" >>,
      ISO_WEEK |-> << "I", "S", "O", "_", "W", "E", "E", "K" >>,
      ALT_ISO_WEEK |-> << "A", "L", "T", "_", "I", "S", "O", "_", "W", "E", "E", "K" >>,
      JULIAN_SHORT |-> << "J", "U", "L", "I", "A", "N", "_", "S", "H", "O", "R", "T" >>,
      AVIATION_MIXED |-> << "A", "V", "I", "A", "T", "I", "O", "N", "_", "M", "I", "X", "E",
          "D" >>,
      ZULU_INDICATOR |-> << "Z", "U", "L", "U", "_", "I", "N", "D", "I", "C", "A", "T", "O",
          "R" >>,
      ISO_TZ_OFFSET |-> << "I", "S", "O", "_", "T", "Z", "_", "O", "F", "F", "S", "E", "T" >>,
      COMPACT_TZ_OFFSET |-> << "C", "O", "M", "P", "A", "C", "T", "_", "T", "Z", "_", "O", "F",
          "F", "S", "E", "T" >>,
      GMT_OFFSET |-> << "G", "M", "T", "_", "O", "F", "F", "S", "E", "T" >>,
      NAMED_TIMEZONE |-> << "N", "A", "M", "E", "D", "_", "T", "I", "M", "E", "Z", "O", "N",
          "E" >>,
      IANA_TIMEZONE |-> << "I", "A", "N", "A", "_", "T", "I", "M", "E", "Z", "O", "N", "E" >>,
      SIMPLE_UTC_OFFSET |-> << "S", "I", "M", "P", "L", "E", "_", "U", "T", "C", "_", "O", "F",
          "F", "S", "E", "T" >>,
      JAVA8_DATETIME |-> << "J", "A", "V", "A", "8", "_", "D", "A", "T", "E", "T", "I", "M",
          "E" >>,
      SIGNED_UNIX |-> << "S", "I", "G", "N", "E", "D", "_", "U", "N", "I", "X" >>,
      HYBRID_TIMESTAMP |-> << "H", "Y", "B", "R", "I", "D", "_", "T", "I", "M", "E", "S", "T",
          "A", "M", "P" >>,
      W3C_DTF |-> << "W", "3", "C", "_", "D", "T", "F" >>,
      XML_TIMESTAMP |-> << "X", "M", "L", "_", "T", "I", "M", "E", "S", "T", "A", "M", "P" >>,
      ISO_WEEK_WEEKDAY |-> << "I", "S", "O", "_", "W", "E", "E", "K", "_", "W", "E", "E", "K",
          "D", "A", "Y" >>,
      CUSTOM_EPOCH |-> << "C", "U", "S", "T", "O", "M", "_", "E", "P", "O", "C", "H" >>,
      COMPACT_DATETIME |-> << "C", "O", "M", "P", "A", "C", "T", "_", "D", "A", "T", "E", "T",
          "I", "M", "E" >>,
      CHINESE_CALENDAR |-> << "C", "H", "I", "N", "E", "S", "E", "_", "C", "A", "L", "E", "N",
          "D", "A", "R" >>,
      ISLAMIC_CALENDAR |-> << "I", "S", "L", "A", "M", "I", "C", "_", "C", "A", "L", "E", "N",
          "D", "A", "R" >>,
      HEBREW_CALENDAR |-> << "H", "E", "B", "R", "E", "W", "_", "C", "A", "L", "E", "N", "D",
          "A", "R" >>,
      INDIAN_CALENDAR |-> << "I", "N", "D", "I", "A", "N", "_", "C", "A", "L", "E", "N", "D",
          "A", "R" >>,
      THAI_CALENDAR |-> << "T", "H", "A", "I", "_", "C", "A", "L", "E", "N", "D", "A", "R" >>,
      JAPANESE_CALENDAR |-> << "J", "A", "P", "A", "N", "E", "S", "E", "_", "C", "A", "L", "E",
          "N", "D", "A", "R" >> ]

\* str::starts_with, str::ends_with and str::contains on spelled-out texts.
starts_with(s, p) == Len(p) <= Len(s) /\ SubSeq(s, 1, Len(p)) = p
ends_with(s, p) == Len(p) <= Len(s) /\ SubSeq(s, Len(s) - Len(p) + 1, Len(s)) = p
contains(s, p) == \E i \in 1..(Len(s) - Len(p) + 1) : SubSeq(s, i, i + Len(p) - 1) = p

get_category(name) ==
  LET s == Spelling[name] IN
  IF starts_with(s, <<"I", "S", "O", "_">>) THEN "ISO"
  ELSE IF starts_with(s, <<"U", "N", "I", "X", "_">>) THEN "UNIX"
  ELSE IF starts_with(s, <<"R", "F", "C", "_">>) THEN "RFC"
  ELSE IF contains(s, <<"D", "A", "T", "E", "T", "I", "M", "E">>) THEN "DATETIME"
  ELSE IF starts_with(s, <<"T", "I", "M", "E", "_">>) THEN "TIME"
  ELSE IF ends_with(s, <<"_", "T", "I", "M", "E", "S", "T", "A", "M", "P">>) THEN "DATABASE"
  ELSE IF ends_with(s, <<"_", "C", "A", "L", "E", "N", "D", "A", "R">>) THEN "CALENDAR"
  ELSE IF \/ contains(s, <<"T", "Z", "_">>)
          \/ ends_with(s, <<"_", "T", "I", "M", "E", "Z", "O", "N", "E">>) THEN "TIMEZONE"
  ELSE "OTHER"

(***************************************************************************)
(* State                                                                   *)
(***************************************************************************)

VARIABLES
  variant,    \* which source text the process was built from (0: the repository's)
  once,       \* the Once guarding the static: "INCOMPLETE", "RUNNING", "COMPLETE"
  map,        \* the builder's local map
  line,       \* the number of insert statements the builder has executed
  lazy,       \* the static's cell: None, or the built map
  order,      \* the iteration order of the built map
  builds,     \* how many times the builder's body was entered
  pc,         \* per thread: "idle", "deref", "build", "wait", "iter", "done"
  timestamp,  \* per thread: the argument of the call in progress
  ret,        \* per thread: the outcome of the call, once computed
  memo,       \* an earlier call, remembered: its argument and its matches
  probe,      \* how many probe texts the diagnostic run has classified
  found,      \* the names some probe matched alone within their category
  record,     \* the record handed to the map transform, if one is in progress
  output      \* the outcome of the map transform, once computed

vars ==
  << variant, once, map, line, lazy, order, builds, pc, timestamp, ret, memo, probe, found,
     record, output >>

static == << once, map, line, lazy, order, builds >>
ghost == << memo, probe, found >>
smart == << record, output >>

\* The members of a sequence.
Set(seq) == {seq[i] : i \in 1..Len(seq)}

\* Option: None, Some(v).
None == [some |-> FALSE]
Some(v) == [some |-> TRUE, v |-> v]
NoRet == [panicked |-> FALSE, matches |-> <<>>]

Threads == 1..NumThreads

\* The state of a process with the given threads before the first call.
Start(threads, v) ==
  /\ variant = v
  /\ once = "INCOMPLETE"
  /\ map = HashMapNew
  /\ line = 0
  /\ lazy = None
  /\ order = <<>>
  /\ builds = 0
  /\ pc = [t \in threads |-> "idle"]
  /\ timestamp = [t \in threads |-> <<>>]
  /\ ret = [t \in threads |-> NoRet]
  /\ memo = None
  /\ probe = 0
  /\ found = {}
  /\ record = None
  /\ output = None

(***************************************************************************)
(* Actions                                                                 *)
(***************************************************************************)

\* identify_timestamp_format(input) is called; it reaches TIMESTAMP_FORMATS.iter().
Call(t, input) ==
  /\ pc[t] = "idle"
  /\ timestamp' = [timestamp EXCEPT ![t] = input]
  /\ pc' = [pc EXCEPT ![t] = "deref"]
  /\ UNCHANGED << variant, static, ret, ghost, smart >>

\* Deref of the static, first access: the Once is taken and the builder's
\* body is entered with a new local map.
DerefInit(t) ==
  /\ pc[t] = "deref"
  /\ once = "INCOMPLETE"
  /\ once' = "RUNNING"
  /\ builds' = builds + 1
  /\ map' = HashMapNew
  /\ line' = 0
  /\ pc' = [pc EXCEPT ![t] = "build"]
  /\ UNCHANGED << variant, lazy, order, timestamp, ret, ghost, smart >>

\* A Deref that does not wait for the builder: the caller goes on to read
\* the static while it is being built.
DerefUnguarded(t) ==
  /\ pc[t] = "deref"
  /\ once = "RUNNING"
  /\ pc' = [pc EXCEPT ![t] = "iter"]
  /\ UNCHANGED << variant, static, timestamp, ret, ghost, smart >>

\* Deref while another thread runs the builder: call_once blocks.
DerefBlocked(t) ==
  /\ pc[t] = "deref"
  /\ once = "RUNNING"
  /\ pc' = [pc EXCEPT ![t] = "wait"]
  /\ UNCHANGED << variant, static, timestamp, ret, ghost, smart >>

\* Deref of the built static.
DerefReady(t) ==
  /\ pc[t] = "deref"
  /\ once = "COMPLETE"
  /\ pc' = [pc EXCEPT ![t] = "iter"]
  /\ UNCHANGED << variant, static, timestamp, ret, ghost, smart >>

\* The next map.insert statement of the builder.
Insert(t) ==
  /\ pc[t] = "build"
  /\ line < Len(Source(variant))
  /\ map' = insert(map, Source(variant)[line + 1][1], line + 1)
  /\ line' = line + 1
  /\ UNCHANGED << variant, once, lazy, order, builds, pc, timestamp, ret, ghost, smart >>

\* The builder returns its map: it is moved into the static and the Once completes.
Publish(t) ==
  /\ pc[t] = "build"
  /\ line = Len(Source(variant))
  /\ lazy' = Some(map)
  /\ map' = HashMapNew
  /\ once' = "COMPLETE"
  /\ \E k \in 0..(NumOrders - 1) : order' = IterOrder(KeysBuilt[variant], k)
  /\ pc' = [pc EXCEPT ![t] = "iter"]
  /\ UNCHANGED << variant, line, builds, timestamp, ret, ghost, smart >>

\* A blocked thread resumes when the Once has completed.
Wake(t) ==
  /\ pc[t] = "wait"
  /\ once = "COMPLETE"
  /\ pc' = [pc EXCEPT ![t] = "iter"]
  /\ UNCHANGED << variant, static, timestamp, ret, ghost, smart >>

\* The map the static dereferences to.
Formats == IF lazy.some THEN lazy.v ELSE HashMapNew

\* A loop that takes the entries it reports out of the static map.
ScanRemoving(t) ==
  LET out == identify_timestamp_format(variant, timestamp[t], Formats, order) IN
  /\ pc[t] = "iter"
  /\ ret' = [ret EXCEPT ![t] = out]
  /\ order' = SelectSeq(order, LAMBDA name : name \notin Set(out.matches))
  /\ pc' = [pc EXCEPT ![t] = "done"]
  /\ UNCHANGED << variant, once, map, line, lazy, builds, timestamp, ghost, smart >>

\* The loop over the catalog, up to the return statement.
Scan(t) ==
  /\ pc[t] = "iter"
  /\ ret' = [ret EXCEPT ![t] =
                identify_timestamp_format(variant, timestamp[t], Formats, order)]
  /\ pc' = [pc EXCEPT ![t] = "done"]
  /\ UNCHANGED << variant, static, timestamp, ghost, smart >>

\* The caller has the result.
Finish(t) ==
  /\ pc[t] = "done"
  /\ pc' = [pc EXCEPT ![t] = "idle"]
  /\ timestamp' = [timestamp EXCEPT ![t] = <<>>]
  /\ ret' = [ret EXCEPT ![t] = NoRet]
  /\ UNCHANGED << variant, static, smart >>

Return(t) == Finish(t) /\ UNCHANGED ghost

\* The caller has the result, and the call is remembered: its argument and
\* what it returned.
Remember(t) ==
  /\ Finish(t)
  /\ memo' = Some([timestamp |-> timestamp[t], matches |-> ret[t].matches])
  /\ UNCHANGED << probe, found >>

\* The probe texts of an entry: its template's text, and the text with every
\* field at its least and at its greatest value.
Probes(name) == << Exemplar(name), AtEnd(name, FALSE), AtEnd(name, TRUE) >>

NumProbes == Len(Inserts) * Len(Probes(Inserts[1][1]))

\* The i-th probe text, entry after entry in the order of the source.
Probe(i) ==
  LET name == Inserts[((i - 1) \div Len(Probes(Inserts[1][1]))) + 1][1]
  IN Probes(name)[((i - 1) % Len(Probes(name))) + 1]

\* Whether a name is the only one of its category among the names returned.
Alone(name, matches) ==
  \A other \in Set(matches) \ {name} : get_category(other) # get_category(name)

\* The next probe text is classified.
CallProbe(t) ==
  /\ probe < NumProbes
  /\ Call(t, Probe(probe + 1))

\* The caller has the result of a probe: the names it matched alone within
\* their category are recorded.
ReturnProbe(t) ==
  /\ Finish(t)
  /\ probe' = probe + 1
  /\ found' = found \cup {name \in Set(ret[t].matches) : Alone(name, ret[t].matches)}
  /\ UNCHANGED memo

(***************************************************************************)
(* The map transform of lib.rs: one record in, one record or an error out. *)
(* A record's value is a sequence of bytes.                                *)
(***************************************************************************)

\* i32::MAX; i32::MIN is one further from zero.
I32_MAX == 2147483647

\* Result: Ok(v), Err(e); a panic unwinds out of the transform.
Ok(v) == [kind |-> "Ok", v |-> v]
Err(e) == [kind |-> "Err", err |-> e]
Panic == [kind |-> "panic"]

\* std::str::from_utf8: the bytes are accepted when they are well-formed
\* UTF-8 (shortest form, no surrogates, at most U+10FFFF).
from_utf8(bytes) ==
  LET Second(i, low, high) == i <= Len(bytes) /\ bytes[i] \in low..high
      Continues(i) == Second(i, 128, 191)
      RECURSIVE WellFormedFrom(_)
      WellFormedFrom(i) ==
        IF i > Len(bytes) THEN TRUE
        ELSE
          LET first == bytes[i] IN
          CASE first \in 0..127 -> WellFormedFrom(i + 1)
            [] first \in 194..223 -> Continues(i + 1) /\ WellFormedFrom(i + 2)
            [] first = 224 ->
                 Second(i + 1, 160, 191) /\ Continues(i + 2) /\ WellFormedFrom(i + 3)
            [] first \in (225..236) \cup (238..239) ->
                 Continues(i + 1) /\ Continues(i + 2) /\ WellFormedFrom(i + 3)
            [] first = 237 ->
                 Second(i + 1, 128, 159) /\ Continues(i + 2) /\ WellFormedFrom(i + 3)
            [] first = 240 ->
                 Second(i + 1, 144, 191) /\ Continues(i + 2) /\ Continues(i + 3)
                   /\ WellFormedFrom(i + 4)
            [] first \in 241..243 ->
                 Continues(i + 1) /\ Continues(i + 2) /\ Continues(i + 3)
                   /\ WellFormedFrom(i + 4)
            [] first = 244 ->
                 Second(i + 1, 128, 143) /\ Continues(i + 2) /\ Continues(i + 3)
                   /\ WellFormedFrom(i + 4)
            [] OTHER -> FALSE
  IN IF WellFormedFrom(1) THEN Ok(bytes) ELSE Err("Utf8Error")

\* str::parse::<i32>: an optional sign, then decimal digits accumulated
\* left to right with checked arithmetic, away from zero on the side of the
\* sign.
parse_i32(src) ==
  LET I32_MIN == (-I32_MAX) - 1
      plus == Code("+")
      minus == Code("-")
      zero == Code("0")
      RECURSIVE Accumulate(_, _, _)
      Accumulate(i, result, is_positive) ==
        IF i > Len(src) THEN Ok(result)
        ELSE IF src[i] \notin zero..(zero + 9) THEN Err("InvalidDigit")
        ELSE
          LET digit == src[i] - zero IN
          IF is_positive
          THEN IF result > I32_MAX \div 10 \/ result * 10 > I32_MAX - digit
               THEN Err("PosOverflow")
               ELSE Accumulate(i + 1, result * 10 + digit, is_positive)
          ELSE IF result < -(I32_MAX \div 10) \/ result * 10 < I32_MIN + digit
               THEN Err("NegOverflow")
               ELSE Accumulate(i + 1, result * 10 - digit, is_positive)
  IN
  IF Len(src) = 0 THEN Err("Empty")
  ELSE IF Len(src) = 1 /\ src[1] \in {plus, minus} THEN Err("InvalidDigit")
  ELSE IF src[1] = plus THEN Accumulate(2, 0, TRUE)
  ELSE IF src[1] = minus THEN Accumulate(2, 0, FALSE)
  ELSE Accumulate(1, 0, TRUE)

\* int * 2 on i32: the product when it fits; otherwise the build decides,
\* a panic where overflow is checked and the product modulo 2^32 where it
\* is not.
Products(int) ==
  LET half == (I32_MAX \div 2) + 1
      overflows == int >= half \/ int < -half
      wrapped == IF int > 0 THEN 2 * ((int - half) - half) ELSE 2 * ((int + half) + half)
  IN IF overflows THEN {Panic, Ok(wrapped)} ELSE {Ok(int * 2)}

\* i32::to_string: the decimal text, with a minus sign below zero.
to_string(int) ==
  LET zero == Code("0")
      RECURSIVE Decimal(_)
      Decimal(n) ==
        IF n < 10 THEN << zero + n >> ELSE Decimal(n \div 10) \o << zero + (n % 10) >>
  IN
  IF int >= 0 THEN Decimal(int)
  ELSE
    LET below == -(int + 1)
        last == (below % 10) + 1
        rest == below \div 10
    IN << Code("-") >> \o
         (IF last = 10 THEN Decimal(rest + 1) \o << zero >>
          ELSE (IF rest = 0 THEN << >> ELSE Decimal(rest)) \o << zero + last >>)

\* map(record): the outcomes the transform can have on the record.
smartmodule_map(rec) ==
  LET key == rec.key
      string == from_utf8(rec.value)
  IN
  IF string.kind = "Err" THEN {Err(string.err)}
  ELSE
    LET int == parse_i32(string.v) IN
    IF int.kind = "Err" THEN {Err(int.err)}
    ELSE
      {IF product.kind = "panic" THEN Panic
       ELSE Ok([key |-> key, value |-> to_string(product.v)]) : product \in Products(int.v)}

\* The records handed to the transform: without a key and with one; values
\* that are decimal texts around zero, around the largest and smallest
\* integers that double within 32 bits and around i32::MAX and i32::MIN,
\* texts that are not integers, text in another script, and bytes that are
\* not UTF-8.
as_bytes(text) ==
  LET Encode(code) ==
        IF code < 128 THEN << code >>
        ELSE IF code < 2048 THEN << 192 + (code \div 64), 128 + (code % 64) >>
        ELSE << 224 + (code \div 4096), 128 + ((code \div 64) % 64), 128 + (code % 64) >>
      RECURSIVE EncodeFrom(_)
      EncodeFrom(i) ==
        IF i > Len(text) THEN << >> ELSE Encode(Code(text[i])) \o EncodeFrom(i + 1)
  IN EncodeFrom(1)

ValueTexts ==
    { << "0" >>,
      << "7" >>,
      << "-", "7" >>,
      << "+", "7" >>,
      << "2", "1" >>,
      << "-", "0" >>,
      << "0", "0", "7" >>,
      << "+", "0", "0", "1", "2" >>,
      << "1", "0", "7", "3", "7", "4", "1", "8", "2", "3" >>,
      << "1", "0", "7", "3", "7", "4", "1", "8", "2", "4" >>,
      << "1", "0", "7", "3", "7", "4", "1", "8", "2", "5" >>,
      << "1", "5", "0", "0", "0", "0", "0", "0", "0", "0" >>,
      << "2", "1", "4", "7", "4", "8", "3", "6", "4", "7" >>,
      << "-", "1", "0", "7", "3", "7", "4", "1", "8", "2", "4" >>,
      << "-", "1", "0", "7", "3", "7", "4", "1", "8", "2", "5" >>,
      << "-", "1", "5", "0", "0", "0", "0", "0", "0", "0", "0" >>,
      << "-", "2", "1", "4", "7", "4", "8", "3", "6", "4", "7" >>,
      << "-", "2", "1", "4", "7", "4", "8", "3", "6", "4", "8" >>,
      << "2", "1", "4", "7", "4", "8", "3", "6", "4", "8" >>,
      << "-", "2", "1", "4", "7", "4", "8", "3", "6", "4", "9" >>,
      << "9", "9", "9", "9", "9", "9", "9", "9", "9", "9", "9" >>,
      << "0", "0", "0", "0", "0", "0", "0", "0", "0", "0", "2", "1", "4", "7", "4", "8", "3", "6", "4", "7" >>,
      << >>,
      << "-" >>,
      << "+" >>,
      << "+", "-", "7" >>,
      << "-", "-", "7" >>,
      << "a", "b", "c" >>,
      << "1", "2", "a" >>,
      << "1", " " >>,
      << " ", "1" >>,
      << "1", ".", "5" >>,
      << "1", "e", "3" >>,
      << "0", "x", "1", "0" >>,
      << "1", "_", "0", "0", "0" >>,
      << "U0663" >>, << "UFF15" >>, << "1", "U00E9" >> }

Malformed ==
  { << 255 >>, << 195 >>, << 49, 128 >>, << 192, 177 >>, << 237, 160, 128 >>,
    << 49, 50, 195 >>, << 244, 144, 128, 128 >>, << 224, 128, 177 >> }

RecordKeys == {None, Some(as_bytes(<< "k" >>)), Some(<< 255 >>)}

Records ==
  {[key |-> key, value |-> value] :
      key \in RecordKeys, value \in {as_bytes(text) : text \in ValueTexts} \cup Malformed}

\* The runtime hands a record to the transform.
MapCall(rec) ==
  /\ record = None
  /\ record' = Some(rec)
  /\ UNCHANGED << variant, static, pc, timestamp, ret, ghost, output >>

\* map runs on the record.
Map ==
  /\ record # None
  /\ output = None
  /\ \E outcome \in smartmodule_map(record.v) : output' = Some(outcome)
  /\ UNCHANGED << variant, static, pc, timestamp, ret, ghost, record >>

\* The runtime takes the outcome.
MapReturn ==
  /\ output # None
  /\ record' = None
  /\ output' = None
  /\ UNCHANGED << variant, static, pc, timestamp, ret, ghost >>

(***************************************************************************)
(* Specifications                                                          *)
(***************************************************************************)

\* One caller, every input.
Init == Start({1}, 0)

Next ==
  \/ \E t \in DOMAIN pc, input \in Inputs : Call(t, input)
  \/ \E t \in DOMAIN pc : DerefInit(t)
  \/ \E t \in DOMAIN pc : Insert(t)
  \/ \E t \in DOMAIN pc : Publish(t)
  \/ \E t \in DOMAIN pc : DerefReady(t)
  \/ \E t \in DOMAIN pc : Scan(t)
  \/ \E t \in DOMAIN pc : Return(t)

Spec == Init /\ [][Next]_vars

\* Several threads; three inputs: one that no entry matches, one that one
\* entry matches, one that two entries match.
ConcurrentInputs == { <<>>, Exemplar("ISO_DATE"), Exemplar("UNIX_SECONDS") }

InitConcurrent == Start(Threads, 0)

NextConcurrent ==
  \/ \E t \in DOMAIN pc, input \in ConcurrentInputs : Call(t, input)
  \/ \E t \in DOMAIN pc : DerefInit(t)
  \/ \E t \in DOMAIN pc : DerefBlocked(t)
  \/ \E t \in DOMAIN pc : DerefReady(t)
  \/ \E t \in DOMAIN pc : Insert(t)
  \/ \E t \in DOMAIN pc : Publish(t)
  \/ \E t \in DOMAIN pc : Wake(t)
  \/ \E t \in DOMAIN pc : Scan(t)
  \/ \E t \in DOMAIN pc : Return(t)
  \/ \E t \in DOMAIN pc : Remember(t)

SpecConcurrent == InitConcurrent /\ [][NextConcurrent]_vars

\* A process built from a source in which one pattern does not compile.
DefectInputs == {Exemplar(n) : n \in Names} \cup {<<>>}

InitDefect == \E v \in 1..Len(Defects) : Start({1}, v)

NextDefect ==
  \/ \E t \in DOMAIN pc, input \in DefectInputs : Call(t, input)
  \/ \E t \in DOMAIN pc : DerefInit(t)
  \/ \E t \in DOMAIN pc : Insert(t)
  \/ \E t \in DOMAIN pc : Publish(t)
  \/ \E t \in DOMAIN pc : DerefReady(t)
  \/ \E t \in DOMAIN pc : Scan(t)
  \/ \E t \in DOMAIN pc : Return(t)

SpecDefect == InitDefect /\ [][NextDefect]_vars

\* One caller, every slash-separated date-time with a day greater than 12.
SlashedInputs == MonthFirst \cup DayFirst

NextSlashed ==
  \/ \E t \in DOMAIN pc, input \in SlashedInputs : Call(t, input)
  \/ \E t \in DOMAIN pc : DerefInit(t)
  \/ \E t \in DOMAIN pc : Insert(t)
  \/ \E t \in DOMAIN pc : Publish(t)
  \/ \E t \in DOMAIN pc : DerefReady(t)
  \/ \E t \in DOMAIN pc : Scan(t)
  \/ \E t \in DOMAIN pc : Return(t)

SpecSlashed == Init /\ [][NextSlashed]_vars

\* One caller that always takes its next step; the empty text, control
\* characters, text outside ASCII, a long text, and two texts that match.
TotalInputs == Unrecognized \cup Foreign \cup {Exemplar("ISO_DATE"), Exemplar("UNIX_SECONDS")}

NextTotal ==
  \/ \E t \in DOMAIN pc, input \in TotalInputs : Call(t, input)
  \/ \E t \in DOMAIN pc : DerefInit(t)
  \/ \E t \in DOMAIN pc : Insert(t)
  \/ \E t \in DOMAIN pc : Publish(t)
  \/ \E t \in DOMAIN pc : DerefReady(t)
  \/ \E t \in DOMAIN pc : Scan(t)
  \/ \E t \in DOMAIN pc : Return(t)

SpecTotal == Init /\ [][NextTotal]_vars /\ WF_vars(NextTotal)

\* One caller; decimal texts as long as the UNIX_SECONDS template with a first
\* digit other than zero: every first digit before zeros, before nines and
\* before the template's digits, and the template with every digit in every
\* later place.
TenDigits ==
  LET base == Exemplar("UNIX_SECONDS")
      n == Len(base)
      tails == { [i \in 1..(n - 1) |-> "0"], [i \in 1..(n - 1) |-> "9"], SubSeq(base, 2, n) }
  IN {<<Digit[d + 1]>> \o tail : d \in 1..9, tail \in tails}
     \cup {[base EXCEPT ![i] = Digit[d + 1]] : i \in 2..n, d \in 0..9}

NextUnix ==
  \/ \E t \in DOMAIN pc, input \in TenDigits : Call(t, input)
  \/ \E t \in DOMAIN pc : DerefInit(t)
  \/ \E t \in DOMAIN pc : Insert(t)
  \/ \E t \in DOMAIN pc : Publish(t)
  \/ \E t \in DOMAIN pc : DerefReady(t)
  \/ \E t \in DOMAIN pc : Scan(t)
  \/ \E t \in DOMAIN pc : Return(t)

SpecUnix == Init /\ [][NextUnix]_vars

\* The run of the two revisions: the process is built from the catalog of
\* time_patterns.rs or from that of time-patterns.rs, and classifies texts.
InitRevisions == \E v \in {0, Revision} : Start({1}, v)

SpecRevisions == InitRevisions /\ [][Next]_vars

\* The probe run: every entry's probe texts are classified in turn.
NextProbe ==
  \/ \E t \in DOMAIN pc : CallProbe(t)
  \/ \E t \in DOMAIN pc : DerefInit(t)
  \/ \E t \in DOMAIN pc : Insert(t)
  \/ \E t \in DOMAIN pc : Publish(t)
  \/ \E t \in DOMAIN pc : DerefReady(t)
  \/ \E t \in DOMAIN pc : Scan(t)
  \/ \E t \in DOMAIN pc : ReturnProbe(t)

SpecProbe == Init /\ [][NextProbe]_vars

\* The map transform run: records are transformed one after another.
NextMap ==
  \/ \E rec \in Records : MapCall(rec)
  \/ Map
  \/ MapReturn

SpecMap == Init /\ [][NextMap]_vars

(***************************************************************************)
(* Properties                                                              *)
(***************************************************************************)

\* The number of the insert statement that defines a name in the repository's source.
Index(name) == CHOOSE k \in 1..Len(Inserts) : Inserts[k][1] = name

\* Whether the definition written for a name matches a text.
Matches(name, text) ==
  LET regex == Compiled[0][Index(name)] IN regex.ok /\ is_match(regex.re, chars(text))

\* The names whose definition matches a text.
Matching(text) == {name \in Names : Matches(name, text)}

\* C1: when a call has computed its result, the names returned are exactly
\* the catalog names whose definition matches the argument: every matching
\* name is there (the scan does not stop at a first match), no other is, and
\* none is there twice.
C1_ResultIsTheMatchingNames ==
  \A t \in DOMAIN pc :
    pc[t] = "done" =>
      /\ Set(ret[t].matches) = Matching(timestamp[t])
      /\ Len(ret[t].matches) = Cardinality(Matching(timestamp[t]))

\* A call has returned more than one name.
C1_SeveralNamesReturned ==
  \E t \in DOMAIN pc : pc[t] = "done" /\ Len(ret[t].matches) >= 2

\* C2: for a/b/yyyy hh:mm:ss with a valid time, a month a and a day b
\* greater than 12, the result has US_DATETIME and not EU_DATETIME; with a day
\* a greater than 12 and a month b, it has EU_DATETIME and not US_DATETIME.
C2_DayOver12TellsUsFromEu ==
  \A t \in DOMAIN pc :
    pc[t] = "done" =>
      /\ timestamp[t] \in MonthFirst =>
           /\ "US_DATETIME" \in Set(ret[t].matches)
           /\ "EU_DATETIME" \notin Set(ret[t].matches)
      /\ timestamp[t] \in DayFirst =>
           /\ "EU_DATETIME" \in Set(ret[t].matches)
           /\ "US_DATETIME" \notin Set(ret[t].matches)

\* A call on a day-first text has returned EU_DATETIME.
C2_DayFirstClassified ==
  \E t \in DOMAIN pc :
    /\ pc[t] = "done"
    /\ timestamp[t] \in DayFirst
    /\ "EU_DATETIME" \in Set(ret[t].matches)

\* C3: the builder's body is entered at most once, and a caller that reads
\* the catalog, whatever the interleaving, reads the complete one: the Once
\* has completed and the static holds the map of all insert statements.
C3_BuiltOnceAndReadComplete ==
  /\ builds <= 1
  /\ \A t \in DOMAIN pc :
       pc[t] \in {"iter", "done"} =>
         /\ once = "COMPLETE"
         /\ lazy = Some(Built(Source(variant), Len(Source(variant))))
         /\ len(Formats) = Len(Inserts)

\* Two first calls have overlapped: one thread has built the catalog and
\* reads it, another was blocked meanwhile and is about to resume.
C3_BlockedCallerAfterBuild ==
  \E t \in DOMAIN pc, u \in DOMAIN pc :
    /\ pc[t] = "wait"
    /\ pc[u] \in {"iter", "done"}
    /\ once = "COMPLETE"
    /\ builds = 1

\* C4: every call, whatever its argument (empty, control characters, not
\* ASCII, long), comes to its result, and the result is a list of names, never
\* a panic; when no definition matches the argument, as for the empty text,
\* the list is empty.
C4_EveryCallReturnsNamesOrNone ==
  /\ [](\A t \in DOMAIN pc :
          pc[t] = "done" =>
            /\ ~ret[t].panicked
            /\ Matching(timestamp[t]) = {} => ret[t].matches = <<>>
            /\ timestamp[t] = <<>> => ret[t].matches = <<>>)
  /\ \A t \in {1} : pc[t] = "deref" ~> pc[t] = "done"

\* The call on the empty text has returned the empty list.
C4_EmptyTextClassified ==
  \E t \in DOMAIN pc :
    /\ pc[t] = "done"
    /\ timestamp[t] = <<>>
    /\ ~ret[t].panicked
    /\ ret[t].matches = <<>>

\* The entry whose pattern the process's source replaces by a defective one.
Defective == Inserts[Defects[variant][1]][1]

\* C5: in a process whose catalog has an entry that does not compile, a call
\* still returns, without that entry's name, and with exactly the names the
\* other entries give: the names whose definition matches, less the
\* defective one.
C5_DefectiveEntryAloneSkipped ==
  \A t \in DOMAIN pc :
    (pc[t] = "done" /\ variant # 0 /\ ~Compiled[variant][Defects[variant][1]].ok) =>
      /\ ~ret[t].panicked
      /\ Defective \notin Set(ret[t].matches)
      /\ Set(ret[t].matches) = Matching(timestamp[t]) \ {Defective}

\* A call has returned names, on a text that the defective entry would match
\* had its pattern been the repository's.
C5_SkippedWhereItWouldMatch ==
  \E t \in DOMAIN pc :
    /\ pc[t] = "done"
    /\ variant # 0
    /\ ~Compiled[variant][Defects[variant][1]].ok
    /\ Defective \in Matching(timestamp[t])
    /\ ret[t].matches # <<>>

\* C6: a call returns the same set of names as any earlier call of the
\* process on the same argument, whatever calls came in between and
\* whichever threads made them.
C6_SameArgumentSameNames ==
  \A t \in DOMAIN pc :
    (pc[t] = "done" /\ memo.some) =>
      (memo.v.timestamp = timestamp[t] => Set(memo.v.matches) = Set(ret[t].matches))

\* A call has returned names on the argument of an earlier, remembered call.
C6_ArgumentClassifiedAgain ==
  \E t \in DOMAIN pc :
    /\ pc[t] = "done"
    /\ memo.some
    /\ memo.v.timestamp = timestamp[t]
    /\ ret[t].matches # <<>>

\* Whether a regex is a concatenation that begins with ^ and ends with $.
Anchored(re) ==
  /\ re.t = "cat"
  /\ Len(re.xs) >= 2
  /\ re.xs[1] = Bol
  /\ re.xs[Len(re.xs)] = Eol

\* Whether what stands between the anchors of a regex matches a text from
\* its first character to its last.
Whole(re, text) ==
  Len(text) \in Ends(Cat(SubSeq(re.xs, 2, Len(re.xs) - 1)), chars(text), {0})

\* C7: every definition of the catalog a call reads is anchored at both
\* ends, and a name the call returns is one whose definition, between its
\* anchors, matches the argument from its first character to its last: no
\* name is returned for a match of a part of the argument.
C7_NamesReturnedMatchWholeText ==
  \A t \in DOMAIN pc :
    pc[t] = "done" =>
      /\ \A name \in DOMAIN Formats : Anchored(Compiled[variant][Formats[name]].re)
      /\ \A name \in Set(ret[t].matches) :
           Whole(Compiled[variant][Formats[name]].re, timestamp[t])

\* A call on a text that an entry matches with a character put in front of
\* it, or behind it, has returned without that entry's name.
C7_LongerTextRejected ==
  \E t \in DOMAIN pc, name \in Names :
    /\ pc[t] = "done"
    /\ Matches(name, Exemplar(name))
    /\ timestamp[t] \in Extended(Exemplar(name))
    /\ name \notin Set(ret[t].matches)

\* C8: no definition matches a text in which its month is outside 01-12,
\* its day outside 01-31, its hour outside 00-23, or its minute or second
\* outside 00-59: a call on an entry's template text with one such field out
\* of its range does not return that entry's name.  (Refuted: ANSI_C_ASCTIME
\* takes a blank for its day.)
C8_FieldOutOfRangeNeverMatched ==
  \A t \in DOMAIN pc :
    pc[t] = "done" =>
      \A name \in Set(ret[t].matches) : timestamp[t] \notin OutOfRange(name)

\* C9: the catalog has no defective entry.  While it is built every insert
\* statement adds a name (none replaces an earlier one), so the built map has
\* as many entries as there are insert statements; and every pattern in it
\* compiles.
C9_NoNameTwiceAndAllCompile ==
  /\ \A t \in DOMAIN pc : pc[t] = "build" => len(map) = line
  /\ lazy.some =>
       /\ len(Formats) = Len(Source(variant))
       /\ \A name \in DOMAIN Formats : Compiled[variant][Formats[name]].ok

\* The catalog has been built and a call has read it and returned names.
C9_BuiltCatalogRead ==
  \E t \in DOMAIN pc :
    /\ pc[t] = "done"
    /\ lazy.some
    /\ line = Len(Source(variant))
    /\ ret[t].matches # <<>>

\* C10: every entry has a text that it matches and no other entry of its
\* category (get_category) matches: when the probe run has classified every
\* entry's probe texts, every name has been returned alone within its
\* category for some text.  (Refuted: ORDINAL_DATE_SHORT and JULIAN_SHORT
\* have the same pattern, and whatever ISO_DATETIME_TZ matches ISO_TZ_OFFSET
\* matches too.)
C10_EveryEntryFoundAlone ==
  probe = NumProbes => found = Names

\* C11: the definitions of the RFC 3339 shape match together: a call returns
\* ISO_DATETIME_TZ exactly when it returns W3C_DTF, and when it returns
\* either it returns RFC_3339 too.
C11_Rfc3339ShapesCoMatch ==
  \A t \in DOMAIN pc :
    pc[t] = "done" =>
      LET names == Set(ret[t].matches) IN
      /\ "ISO_DATETIME_TZ" \in names <=> "W3C_DTF" \in names
      /\ ("ISO_DATETIME_TZ" \in names \/ "W3C_DTF" \in names) => "RFC_3339" \in names

\* A call has returned the three names together.
C11_AllThreeReturned ==
  \E t \in DOMAIN pc :
    /\ pc[t] = "done"
    /\ {"ISO_DATETIME_TZ", "W3C_DTF", "RFC_3339"} \subseteq Set(ret[t].matches)

\* C12: a call on a decimal text of ten digits whose first digit is not
\* zero returns UNIX_SECONDS among its names.
C12_TenDigitsAreUnixSeconds ==
  \A t \in DOMAIN pc :
    (pc[t] = "done" /\ timestamp[t] \in TenDigits) =>
      "UNIX_SECONDS" \in Set(ret[t].matches)

\* A call on ten digits that begin with 9 has returned UNIX_SECONDS.
C12_NinesClassified ==
  \E t \in DOMAIN pc :
    /\ pc[t] = "done"
    /\ Len(timestamp[t]) = 10
    /\ timestamp[t] \in TenDigits
    /\ timestamp[t][1] = "9"
    /\ "UNIX_SECONDS" \in Set(ret[t].matches)


\* The decimal text of twice the integer a decimal text denotes, digit by
\* digit: a digit of five or more carries one into the place before it.
Twice(text) ==
  LET Minus == Code("-")
      Zero == Code("0")
      negative == text[1] = Minus
      digits == IF negative THEN SubSeq(text, 2, Len(text)) ELSE text
      n == Len(digits)
      digit(i) == digits[i] - Zero
      carry(i) == IF i < n /\ digit(i + 1) >= 5 THEN 1 ELSE 0
  IN (IF negative THEN << Minus >> ELSE << >>)
       \o (IF digit(1) >= 5 THEN << Zero + 1 >> ELSE << >>)
       \o [i \in 1..n |-> Zero + ((2 * digit(i) + carry(i)) % 10)]

\* C13: for a record whose value is UTF-8 text that parses as a 32-bit signed
\* integer n, the map transform returns the record's key unchanged with the
\* decimal text of 2*n, the mathematical integer; for a value that is not
\* UTF-8 or does not parse as such an integer it returns an error and no
\* record.
C13_MapDoublesOrFails ==
  output # None =>
    LET rec == record.v
        string == from_utf8(rec.value)
        n == IF string.kind = "Ok" THEN parse_i32(string.v) ELSE string
    IN IF n.kind = "Ok"
       THEN output.v = Ok([key |-> rec.key, value |-> Twice(to_string(n.v))])
       ELSE output.v.kind = "Err"


\* The names a revision inserts, and those whose definition in that
\* revision matches a text.
NamesIn(v) == {Source(v)[k][1] : k \in 1..Len(Source(v))}

MatchingIn(v, text) ==
  {Source(v)[k][1] :
     k \in {k \in 1..Len(Source(v)) :
              Compiled[v][k].ok /\ is_match(Compiled[v][k].re, chars(text))}}

\* C14: the two revisions of the catalog define the same names, and every
\* text the definition of a name in time_patterns.rs matches is matched by
\* the definition of that name in time-patterns.rs, so that on every text
\* the result of the classifier of time_patterns.rs is a subset of the
\* result of the classifier of time-patterns.rs.
C14_StrictResultWithinLooseResult ==
  /\ NamesIn(0) = NamesIn(Revision)
  /\ \A t \in DOMAIN pc :
       pc[t] = "done" =>
         IF variant = 0
           THEN Set(ret[t].matches) \subseteq MatchingIn(Revision, timestamp[t])
           ELSE MatchingIn(0, timestamp[t]) \subseteq Set(ret[t].matches)

=============================================================================
